---- MODULE Spec2Model ----
(***************************************************************************)
(* Exam backend (kartikpande123/examuserbackend): the answer ingestion     *)
(* handlers, the registration gate and the scoring loop, over a model of   *)
(* the Firestore documents they read and write.                            *)
(*                                                                         *)
(* JavaScript values are tagged records [t, n, s]: t is the type, n the    *)
(* number of a "num"/"bool", s the characters of a "str".  A string is a   *)
(* sequence of characters, so startsWith and parseInt are computed.        *)
(* A Firestore collection is a function whose DOMAIN is the set of         *)
(* existing documents; a document is a record whose DOMAIN is its fields.  *)
(***************************************************************************)
EXTENDS Integers, Sequences, FiniteSets, TLC

VARIABLES
  candidates,   \* Firestore candidates/<registrationNumber>
  answers,      \* Firestore candidates/<registrationNumber>/answers/<id>
  now,          \* the server clock (new Date())
  pc,           \* per client: the position of its session
  last,         \* the request handled by the latest step, and its response
  started,      \* per registration number: start-exam requests answered 200
  exam,         \* the scored exam: its Questions, as the store returns them
  sheet,        \* the scored candidate's answers, as the store returns them
  result,       \* the resultData computed from exam and sheet
  inflight,     \* per client: the request whose write the store has not completed
  examDocs,     \* Firestore Exams/<examTitle>
  questionDocs, \* Firestore Exams/<examTitle>/Questions/<id>
  createdOrders,\* per exam: the order given to each question created, in turn
  results,      \* Realtime Database Results/<examTitle>/<registrationNumber>
  students,     \* Realtime Database practicetestpurchasedstudents/<pushKey>
  winners,      \* Realtime Database Winners/<examTitle>/<registrationNumber>
  schedule,     \* Realtime Database ExamDateTime/<examTitle>
  gateway,      \* the calls made to the payment gateway, in turn
  verified,     \* the payments a verify-payment request has answered success for
  reqs,         \* per client: the handler suspended at an await, with its locals
  streams       \* per client: its server-push connection and what it was sent

vars == <<candidates, answers, now, pc, last, started, exam, sheet, result,
          inflight, examDocs, questionDocs, createdOrders, results,
          students, winners, schedule, gateway, verified, reqs, streams>>

-----------------------------------------------------------------------------
(* JavaScript values *)

Num(k) == [t |-> "num", n |-> k, s |-> <<>>]
Str(cs) == [t |-> "str", n |-> 0, s |-> cs]
Null == [t |-> "null", n |-> 0, s |-> <<>>]
Undef == [t |-> "undef", n |-> 0, s |-> <<>>]
NaN == [t |-> "nan", n |-> 0, s |-> <<>>]
True == [t |-> "bool", n |-> 1, s |-> <<>>]
False == [t |-> "bool", n |-> 0, s |-> <<>>]

\* ToBoolean: what `!v`, `v || w` and `if (v)` test.
Truthy(v) ==
  CASE v.t = "num" -> v.n # 0
    [] v.t = "str" -> v.s # <<>>
    [] v.t = "bool" -> v.n = 1
    [] v.t = "obj" -> TRUE
    [] OTHER -> FALSE

\* a === b (NaN is not equal to itself).
StrictEq(a, b) == a = b /\ a.t # "nan"

\* v || w
OrElse(v, w) == IF Truthy(v) THEN v ELSE w

Digits == <<"0", "1", "2", "3", "4", "5", "6", "7", "8", "9">>

IsDigit(c) == \E i \in 1..Len(Digits) : Digits[i] = c

DigitVal(c) == (CHOOSE i \in 1..Len(Digits) : Digits[i] = c) - 1

\* The value of the longest prefix of digits of cs, read after acc.
RECURSIVE DigitPrefix(_, _)
DigitPrefix(cs, acc) ==
  IF cs = <<>> \/ ~IsDigit(Head(cs)) THEN acc
  ELSE DigitPrefix(Tail(cs), acc * 10 + DigitVal(Head(cs)))

\* parseInt(v): a number is itself, a string its leading digits (NaN when it
\* has none), null and undefined are NaN.
ParseInt(v) ==
  CASE v.t = "num" -> v
    [] v.t = "str" ->
         IF v.s # <<>> /\ IsDigit(Head(v.s)) THEN Num(DigitPrefix(v.s, 0)) ELSE NaN
    [] OTHER -> NaN

-----------------------------------------------------------------------------
(* Firestore *)

\* collection.add(data) in place of ref.set(data): a new document each time.
DocAdd(coll, ref, data) ==
  LET fresh == <<ref[1], Append(ref[2], ToString(Cardinality(DOMAIN coll)))>> IN
  [k \in DOMAIN coll \cup {fresh} |-> IF k = fresh THEN data ELSE coll[k]]

\* ref.set(data, {merge: true}) in place of ref.set(data): the fields of data
\* replace or join those of an existing document.
DocMerge(coll, ref, data) ==
  [k \in DOMAIN coll \cup {ref} |->
     IF k # ref THEN coll[k]
     ELSE IF ref \notin DOMAIN coll THEN data
     ELSE [f \in DOMAIN coll[k] \cup DOMAIN data |->
             IF f \in DOMAIN data THEN data[f] ELSE coll[k][f]]]

\* ref.set(data): the document becomes exactly data.
DocSet(coll, ref, data) ==
  [k \in DOMAIN coll \cup {ref} |-> IF k = ref THEN data ELSE coll[k]]

\* ref.update(data) on an existing document: the fields of data replace or
\* join the document's.
DocUpdate(coll, ref, data) ==
  [k \in DOMAIN coll |->
     IF k = ref
     THEN [f \in DOMAIN coll[k] \cup DOMAIN data |->
             IF f \in DOMAIN data THEN data[f] ELSE coll[k][f]]
     ELSE coll[k]]

\* Firestore rejects undefined as a field value (ignoreUndefinedProperties
\* is never set).
HasUndefined(data) == \E f \in DOMAIN data : data[f] = Undef

\* The operations of a WriteBatch, applied in order.
RECURSIVE ApplyOps(_, _)
ApplyOps(store, ops) ==
  IF ops = <<>> THEN store
  ELSE LET op == Head(ops) IN
       ApplyOps(
         IF op.coll = "answers"
         THEN [store EXCEPT !.answers = DocSet(store.answers, op.ref, op.data)]
         ELSE IF op.kind = "update"
         THEN [store EXCEPT
                 !.candidates = DocUpdate(store.candidates, op.ref[1], op.data)]
         ELSE [store EXCEPT
                 !.candidates = DocSet(store.candidates, op.ref[1], op.data)],
         Tail(ops))

\* update() requires its document to exist; one failed precondition fails
\* the whole commit (NOT_FOUND).
Committable(store, ops) ==
  \A i \in 1..Len(ops) :
    (ops[i].kind = "update" /\ ops[i].coll = "candidates")
      => ops[i].ref[1] \in DOMAIN store.candidates

\* batch.commit() / ref.set(): every operation or none.
Commit(store, ops) == IF Committable(store, ops) THEN ApplyOps(store, ops) ELSE store

SetOp(ref, data) == [kind |-> "set", coll |-> "answers", ref |-> ref, data |-> data]

UpdateCandidateOp(reg, data) ==
  [kind |-> "update", coll |-> "candidates", ref |-> <<reg>>, data |-> data]

-----------------------------------------------------------------------------
(* Answer ingestion: what each handler does before it awaits the store.   *)
(* A plan is the response status decided so far (200 when the writes are  *)
(* still to be committed), the writes, and the savedCount of the reply    *)
(* (-1 when the reply carries none).                                      *)

Plan(status, ops, count) == [status |-> status, ops |-> ops, savedCount |-> count]

\* The marker put in front of every id.
AlwaysPrefixed(q) == <<"Q">> \o q

\* questionId.startsWith('Q') ? questionId : `Q${questionId}`
FormattedQuestionId(q) ==
  IF q # <<>> /\ Head(q) = "Q" THEN q ELSE <<"Q">> \o q

\* firestore.collection('candidates').doc(reg).collection('answers').doc(id)
AnswerRef(reg, q) == <<reg, FormattedQuestionId(q)>>

\* questionId.startsWith throws on a value that is no string; doc() throws
\* on a path that is no non-empty string; set() throws on undefined.
Throws(reg, questionId, data) ==
  \/ questionId.t # "str"
  \/ reg.t # "str" \/ reg.s = <<>>
  \/ HasUndefined(data)

\* POST /api/save-answer: the document it sets.
IndividualData(b, t) ==
  [examName |-> b.examName, timestamp |-> Num(t), order |-> b.order,
   answer |-> ParseInt(b.answer), skipped |-> OrElse(b.skipped, False),
   submittedVia |-> Str(<<"individual">>)]

\* The validation with !answer in place of answer === undefined.
SaveAnswerPlanFalsyAnswer(b, t) ==
  IF \/ ~Truthy(b.registrationNumber) \/ ~Truthy(b.questionId)
     \/ ~Truthy(b.answer) \/ ~Truthy(b.examName)
  THEN Plan(400, <<>>, -1)
  ELSE IF Throws(b.registrationNumber, b.questionId, IndividualData(b, t))
  THEN Plan(500, <<>>, -1)
  ELSE Plan(200,
            <<SetOp(AnswerRef(b.registrationNumber.s, b.questionId.s),
                    IndividualData(b, t))>>,
            -1)

SaveAnswerPlan(b, t) ==
  IF \/ ~Truthy(b.registrationNumber) \/ ~Truthy(b.questionId)
     \/ b.answer = Undef \/ ~Truthy(b.examName)
  THEN Plan(400, <<>>, -1)
  ELSE IF Throws(b.registrationNumber, b.questionId, IndividualData(b, t))
  THEN Plan(500, <<>>, -1)
  ELSE Plan(200,
            <<SetOp(AnswerRef(b.registrationNumber.s, b.questionId.s),
                    IndividualData(b, t))>>,
            -1)

\* POST /api/save-all-answers: the answerData of one entry.
BulkData(e, t) ==
  IF Truthy(e.skipped)
  THEN [examName |-> e.examName, timestamp |-> Num(t), order |-> e.order,
        answer |-> Null, skipped |-> True]
  ELSE [examName |-> e.examName, timestamp |-> Num(t), order |-> e.order,
        answer |-> ParseInt(e.answer), skipped |-> False]

\* POST /api/timeout-save-answers: the document of one attempted entry.
TimeoutData(e, t) ==
  [examName |-> e.examName, timestamp |-> Num(t), order |-> e.order,
   answer |-> ParseInt(e.answer), skipped |-> False,
   submittedVia |-> Str(<<"timeout">>)]

\* POST /api/complete-exam: the document of one entry.
CompletionData(e, examName, t) ==
  [examName |-> examName, timestamp |-> Num(t), order |-> e.order,
   answer |-> IF Truthy(e.skipped) THEN Null ELSE ParseInt(e.answer),
   skipped |-> OrElse(e.skipped, False),
   submittedVia |-> Str(<<"completion">>)]

\* The batch.set calls of an answers.forEach: one per entry, in order.
BulkOps(entries, t) ==
  [i \in 1..Len(entries) |->
     SetOp(AnswerRef(entries[i].registrationNumber.s, entries[i].questionId.s),
           BulkData(entries[i], t))]

SaveAllAnswersPlan(b, t) ==
  IF ~b.isArray \/ b.answers = <<>> THEN Plan(400, <<>>, -1)
  ELSE IF \E i \in 1..Len(b.answers) :
            Throws(b.answers[i].registrationNumber, b.answers[i].questionId,
                   BulkData(b.answers[i], t))
  THEN Plan(500, <<>>, -1)
  ELSE Plan(200, BulkOps(b.answers, t), -1)

\* The filter without its test of the answer.
NotSkipped(e) == ~Truthy(e.skipped)

\* answers.filter(a => !a.skipped && a.answer !== null && a.answer !== undefined)
Attempted(e) == ~Truthy(e.skipped) /\ e.answer # Null /\ e.answer # Undef

AttemptedAnswers(entries) == SelectSeq(entries, Attempted)

\* The batch that also marks the candidate of its first entry submitted.
TimeoutOpsMarkingSubmitted(entries, t) ==
  [i \in 1..Len(entries) |->
     SetOp(AnswerRef(entries[i].registrationNumber.s, entries[i].questionId.s),
           TimeoutData(entries[i], t))]
    \o <<UpdateCandidateOp(entries[1].registrationNumber.s,
                        [submitted |-> True, examCompletedAt |-> Num(t)])>>

TimeoutOps(entries, t) ==
  [i \in 1..Len(entries) |->
     SetOp(AnswerRef(entries[i].registrationNumber.s, entries[i].questionId.s),
           TimeoutData(entries[i], t))]

TimeoutSaveAnswersPlan(b, t) ==
  IF ~b.isArray THEN Plan(400, <<>>, -1)
  ELSE LET attempted == AttemptedAnswers(b.answers) IN
       IF attempted = <<>> THEN Plan(200, <<>>, -1)
       ELSE IF \E i \in 1..Len(attempted) :
                 Throws(attempted[i].registrationNumber, attempted[i].questionId,
                        TimeoutData(attempted[i], t))
       THEN Plan(500, <<>>, -1)
       ELSE Plan(200, TimeoutOps(attempted, t), Len(attempted))

\* batch.update(candidateRef, {submitted: true, examCompletedAt: ...})
SubmittedData(t) == [submitted |-> True, examCompletedAt |-> Num(t)]

\* The answers written without the candidate's update in the batch.
AnswersOnlyOps(candidateId, examName, entries, t) ==
  [i \in 1..Len(entries) |->
     SetOp(AnswerRef(candidateId, entries[i].questionId.s),
           CompletionData(entries[i], examName, t))]

CompletionOps(candidateId, examName, entries, t) ==
  <<UpdateCandidateOp(candidateId, SubmittedData(t))>> \o
  [i \in 1..Len(entries) |->
     SetOp(AnswerRef(candidateId, entries[i].questionId.s),
           CompletionData(entries[i], examName, t))]

\* The candidate marked submitted before the request is validated.
CompleteExamPlanUpdateFirst(b, t) ==
  IF ~Truthy(b.candidateId) \/ ~Truthy(b.examName) \/ ~b.isArray
  THEN Plan(400,
            IF b.candidateId.t = "str" /\ b.candidateId.s # <<>>
            THEN <<UpdateCandidateOp(b.candidateId.s, SubmittedData(t))>> ELSE <<>>,
            -1)
  ELSE IF \/ b.candidateId.t # "str"
          \/ \E i \in 1..Len(b.answers) :
            Throws(b.candidateId, b.answers[i].questionId,
                   CompletionData(b.answers[i], b.examName, t))
  THEN Plan(500, <<>>, -1)
  ELSE Plan(200, CompletionOps(b.candidateId.s, b.examName, b.answers, t), -1)

CompleteExamPlan(b, t) ==
  IF ~Truthy(b.candidateId) \/ ~Truthy(b.examName) \/ ~b.isArray
  THEN Plan(400, <<>>, -1)
  ELSE IF \/ b.candidateId.t # "str"
          \/ \E i \in 1..Len(b.answers) :
            Throws(b.candidateId, b.answers[i].questionId,
                   CompletionData(b.answers[i], b.examName, t))
  THEN Plan(500, <<>>, -1)
  ELSE Plan(200, CompletionOps(b.candidateId.s, b.examName, b.answers, t), -1)

-----------------------------------------------------------------------------
(* Bounds and inputs *)

\* The longest answers array a request carries.
MaxBatch == 2

Clients == {"c1", "c2"}

ExamName == Str(<<"Math101">>)

\* REG1 and REG2 are registered; REG9 is a registration number of no candidate.
Reg1 == <<"REG1">>
Reg2 == <<"REG2">>
Reg9 == <<"REG9">>

Entry(reg, q, a, sk, ord) ==
  [registrationNumber |-> reg, questionId |-> q, answer |-> a,
   examName |-> ExamName, skipped |-> sk, order |-> ord]

\* The answers a client sends for candidate reg: question 5 (order 1) with or
\* without the Q marker, question 7 (order 2); a numeric string, a number with
\* skipped set, no answer, and the first option (0).
EntriesOf(reg) ==
  {Entry(reg, Str(<<"5">>), Str(<<"2">>), Undef, Num(1)),
   Entry(reg, Str(<<"Q", "5">>), Num(1), True, Num(1)),
   Entry(reg, Str(<<"Q", "7">>), Null, Undef, Num(2)),
   Entry(reg, Str(<<"Q", "7">>), Num(0), False, Num(2))}

\* An entry whose questionId is a number, not a string.
NumericIdEntry == Entry(Str(Reg1), Num(5), Num(1), Undef, Num(1))

\* The bodies of POST /api/save-all-answers and /api/timeout-save-answers:
\* the arrays, an array with a numeric questionId after a good entry, an
\* answer of a registration number that has no candidate, and a body whose
\* answers is no array.
ArrayBodies ==
  {[isArray |-> TRUE, answers |-> a] :
     a \in UNION {[1..n -> EntriesOf(Str(Reg1))] : n \in 0..MaxBatch}}
    \cup {[isArray |-> TRUE,
           answers |-> <<Entry(Str(Reg1), Str(<<"Q", "7">>), Num(0), False, Num(2)),
                         NumericIdEntry>>],
          [isArray |-> TRUE,
           answers |-> <<Entry(Str(Reg9), Str(<<"Q", "7">>), Num(0), False, Num(2))>>],
          [isArray |-> FALSE, answers |-> <<>>]}

-----------------------------------------------------------------------------
(* The ingestion handlers *)

\* How the awaited write ends: committed and answered; rejected by the store
\* (the catch block answers 500; a process that dies before the write leaves
\* the store the same way); or committed, and the process dies before the
\* reply.
Outcomes == {"ok", "storeError", "crash"}

Store == [candidates |-> candidates, answers |-> answers]

Landed(o) == o \in {"ok", "crash"}

\* The status the client sees (0: no reply).
ReplyStatus(plan, o) ==
  CASE o = "crash" -> 0
    [] o = "ok" /\ Committable(Store, plan.ops) -> 200
    [] OTHER -> 500

\* The latest request and its reply; written: its writes were applied;
\* repeat: it is the request before it again, whose writes were applied.
Reply(op, b, status, count, o, written, repeat) ==
  [op |-> op, body |-> b, status |-> status, savedCount |-> count, outcome |-> o,
   written |-> written, repeat |-> repeat]

\* One request from receipt to reply.  Each request reads a later clock.  The
\* writes of the plan are awaited; a plan that has decided on an error status
\* before them replies with it.
Handle(c, op, b, plan) ==
  /\ pc[c] = "idle"
  /\ pc' = [pc EXCEPT ![c] = "done"]
  /\ IF plan.ops # <<>>
     THEN \E o \in Outcomes :
            LET st == IF Landed(o) THEN Commit(Store, plan.ops) ELSE Store
                status == IF plan.status = 200 \/ o = "crash"
                          THEN ReplyStatus(plan, o) ELSE plan.status
            IN /\ candidates' = st.candidates
               /\ answers' = st.answers
               /\ last' = Reply(op, b, status,
                                IF status = 200 THEN plan.savedCount ELSE -1, o,
                                Landed(o) /\ Committable(Store, plan.ops),
                                last.written /\ last.op = op /\ last.body = b)
     ELSE /\ UNCHANGED <<candidates, answers>>
          /\ last' = Reply(op, b, plan.status, -1, "none", FALSE, FALSE)
  /\ now' = now + 1
  /\ UNCHANGED <<started, exam, sheet, result>>
  /\ UNCHANGED <<inflight, examDocs, questionDocs, createdOrders, results>>
  /\ UNCHANGED <<students, winners, schedule, gateway, verified, reqs, streams>>

SaveAnswer(c) ==
  \* Each entry for either registration number, the first option sent as the
  \* string "0", and a body with one field missing, null or the empty string.
  \E b \in EntriesOf(Str(Reg1)) \cup EntriesOf(Str(Reg9))
            \cup {NumericIdEntry,
                  Entry(Str(Reg1), Str(<<"Q", "7">>), Str(<<"0">>), Undef, Num(2))}
            \cup {[Entry(Str(Reg1), Str(<<"5">>), Num(1), Undef, Num(1)) EXCEPT ![f] = Undef] :
                    f \in {"registrationNumber", "questionId", "answer", "examName",
                           "order"}}
            \cup {[Entry(Str(Reg1), Str(<<"5">>), Num(0), Undef, Num(1)) EXCEPT ![f] = v] :
                    f \in {"registrationNumber", "questionId", "examName"},
                    v \in {Null, Str(<<>>)}} :
    Handle(c, "save-answer", b, SaveAnswerPlan(b, now))

SaveAllAnswers(c) ==
  \E b \in ArrayBodies :
    Handle(c, "save-all-answers", b, SaveAllAnswersPlan(b, now))

TimeoutSaveAnswers(c) ==
  \E b \in ArrayBodies :
    Handle(c, "timeout-save-answers", b, TimeoutSaveAnswersPlan(b, now))

CompleteExam(c) ==
  \E b \in {[candidateId |-> id, examName |-> ExamName, isArray |-> a.isArray,
             answers |-> a.answers] : id \in {Str(Reg1), Str(Reg9)}, a \in ArrayBodies}
            \cup {[candidateId |-> Undef, examName |-> ExamName, isArray |-> TRUE,
                   answers |-> <<>>],
                  [candidateId |-> Str(Reg1), examName |-> Undef, isArray |-> TRUE,
                   answers |-> <<>>]} :
    Handle(c, "complete-exam", b, CompleteExamPlan(b, now))

-----------------------------------------------------------------------------
(* The ingestion handlers, split at their await *)

\* A request at its await: the handler has read the clock and built its
\* writes; the store has not completed them.
Pending(op, b, plan) ==
  [op |-> op, body |-> b, ops |-> plan.ops, savedCount |-> plan.savedCount,
   state |-> "pending"]

\* A handler from the receipt of the request to its await, or to its reply
\* when it returns before any write.
Receive(c, op, b, plan) ==
  /\ pc[c] = "idle"
  /\ now' = now + 1
  /\ IF plan.ops = <<>>
     THEN /\ pc' = [pc EXCEPT ![c] = "done"]
          /\ last' = Reply(op, b, plan.status, -1, "none", FALSE, FALSE)
          /\ UNCHANGED inflight
     ELSE /\ pc' = [pc EXCEPT ![c] = "awaiting"]
          /\ inflight' = [inflight EXCEPT ![c] = Pending(op, b, plan)]
          /\ UNCHANGED last
  /\ UNCHANGED <<candidates, answers, started, exam, sheet, result>>
  /\ UNCHANGED <<examDocs, questionDocs, createdOrders, results>>
  /\ UNCHANGED <<students, winners, schedule, gateway, verified, reqs, streams>>

\* The awaited set() or batch.commit() of client c completes, and the handler
\* replies.
WriteCompletes(c) ==
  /\ pc[c] = "awaiting"
  /\ pc' = [pc EXCEPT ![c] = "done"]
  /\ \E o \in Outcomes :
       LET p == inflight[c]
           applied == Landed(o) /\ Committable(Store, p.ops)
           st == IF Landed(o) THEN Commit(Store, p.ops) ELSE Store
           status == ReplyStatus(Plan(200, p.ops, p.savedCount), o)
       IN /\ candidates' = st.candidates
          /\ answers' = st.answers
          /\ last' = Reply(p.op, p.body, status,
                           IF status = 200 THEN p.savedCount ELSE -1, o, applied, FALSE)
          /\ inflight' = [inflight EXCEPT
                            ![c].state = IF applied THEN "landed" ELSE "lost"]
  /\ UNCHANGED <<now, started, exam, sheet, result>>
  /\ UNCHANGED <<examDocs, questionDocs, createdOrders, results>>
  /\ UNCHANGED <<students, winners, schedule, gateway, verified, reqs, streams>>

\* The entries concurrent clients send in arrays for candidate REG1: two for
\* the slot of question 5.
ConcurrentEntries ==
  {Entry(Str(Reg1), Str(<<"5">>), Str(<<"2">>), Undef, Num(1)),
   Entry(Str(Reg1), Str(<<"Q", "5">>), Num(1), True, Num(1))}

\* The array bodies of concurrent clients, and one that is no array.
ConcurrentArrayBodies ==
  {[isArray |-> TRUE, answers |-> a] :
     a \in UNION {[1..n -> ConcurrentEntries] : n \in 0..MaxBatch}}
    \cup {[isArray |-> FALSE, answers |-> <<>>]}

\* The single answers of concurrent clients: for question 5 and question 7.
ReceiveSaveAnswer(c) ==
  \E b \in ConcurrentEntries
             \cup {Entry(Str(Reg1), Str(<<"Q", "7">>), Num(0), False, Num(2)),
                   NumericIdEntry} :
    Receive(c, "save-answer", b, SaveAnswerPlan(b, now))

ReceiveSaveAllAnswers(c) ==
  \E b \in ConcurrentArrayBodies :
    Receive(c, "save-all-answers", b, SaveAllAnswersPlan(b, now))

ReceiveTimeoutSaveAnswers(c) ==
  \E b \in ConcurrentArrayBodies :
    Receive(c, "timeout-save-answers", b, TimeoutSaveAnswersPlan(b, now))

ReceiveCompleteExam(c) ==
  \E b \in ConcurrentArrayBodies, id \in {Str(Reg1), Str(Reg9)} :
    Receive(c, "complete-exam",
            [candidateId |-> id, examName |-> ExamName, isArray |-> b.isArray,
             answers |-> b.answers],
            CompleteExamPlan([candidateId |-> id, examName |-> ExamName,
                              isArray |-> b.isArray, answers |-> b.answers], now))

-----------------------------------------------------------------------------
(* Registration gate: validate-registration and start-exam *)

RegistrationBodies == {[registrationNumber |-> Str(r)] : r \in {Reg1, Reg2, Reg9}}

\* new Date(examDate) > currentDate
Upcoming(doc, t) == ParseInt(doc.examDate).n > t

RequiredFields ==
  {"candidateName", "district", "dob", "exam", "examDate", "examStartTime",
   "examEndTime", "gender", "phone"}

\* The validation without its test of used.
ValidateStatusIgnoresUsed(cands, reg, t) ==
  IF reg \notin DOMAIN cands THEN 404
  ELSE IF Upcoming(cands[reg], t) THEN 400
  ELSE IF \E f \in RequiredFields : ~Truthy(cands[reg][f]) THEN 400
  ELSE 200

\* POST /api/validate-registration: the status of its reply.
ValidateStatus(cands, reg, t) ==
  IF reg \notin DOMAIN cands THEN 404
  ELSE IF Upcoming(cands[reg], t) THEN 400
  ELSE IF Truthy(cands[reg].used) THEN 400
  ELSE IF \E f \in RequiredFields : ~Truthy(cands[reg][f]) THEN 400
  ELSE 200

ValidateRegistration(c) ==
  \E b \in RegistrationBodies :
    /\ pc[c] = "idle"
    /\ pc' = [pc EXCEPT ![c] = "validated"]
    /\ last' = Reply("validate-registration", b,
                     ValidateStatus(candidates, b.registrationNumber.s, now),
                     -1, "none", FALSE, FALSE)
    /\ now' = now + 1
    /\ UNCHANGED <<candidates, answers, started, exam, sheet, result>>
    /\ UNCHANGED <<inflight, examDocs, questionDocs, createdOrders, results>>
    /\ UNCHANGED <<students, winners, schedule, gateway, verified, reqs, streams>>

\* candidateRef.update({used: true, examStartTime: new Date().toISOString()})
StartedData(t) == [used |-> True, examStartTime |-> Str(<<ToString(t)>>)]

\* POST /api/start-exam: the update is not conditional on anything the
\* handler reads.
StartExamOps(reg, t) == <<UpdateCandidateOp(reg, StartedData(t))>>

StartExam(c) ==
  \E b \in RegistrationBodies, o \in Outcomes :
    LET ops == StartExamOps(b.registrationNumber.s, now)
        st == IF Landed(o) THEN Commit(Store, ops) ELSE Store
        status == ReplyStatus(Plan(200, ops, -1), o)
    IN /\ pc[c] \in {"idle", "validated"}
       /\ pc' = [pc EXCEPT ![c] = "done"]
       /\ candidates' = st.candidates
       /\ last' = Reply("start-exam", b, status, -1, o,
                        Landed(o) /\ Committable(Store, ops), FALSE)
       /\ started' = [started EXCEPT ![b.registrationNumber.s] =
                        @ + (IF status = 200 THEN 1 ELSE 0)]
       /\ now' = now + 1
       /\ UNCHANGED <<answers, exam, sheet, result>>
       /\ UNCHANGED <<inflight, examDocs, questionDocs, createdOrders, results>>
       /\ UNCHANGED <<students, winners, schedule, gateway, verified, reqs, streams>>

-----------------------------------------------------------------------------
(* Scoring: the loop of GET /api/today-exam-results over one candidate *)

\* The most questions an exam has, and the most answers a candidate has stored.
MaxQuestions == 5
MaxAnswers == 3

\* An exam's Questions as orderBy('order') returns them: question i was
\* created as number i, with order = (count of questions before it) + 1.
Exams ==
  UNION {{[i \in 1..n |-> [order |-> Num(i), correctAnswer |-> c[i]]] :
            c \in [1..n -> {Num(0), Num(1), Num(2)}]} : n \in 0..MaxQuestions}

StoredAnswer(ord, a, sk) == [order |-> Num(ord), answer |-> a, skipped |-> sk]

\* The candidate's answers in the order the collection's get() returns them.
\* Each document is an answer for order 1, for order 2, a skip of order 3,
\* another document of order 1 (answer 0), or an unparsable answer for order 2.
Sheets ==
  UNION {[1..n -> {StoredAnswer(1, Num(1), False), StoredAnswer(2, Num(2), False),
                   StoredAnswer(3, Null, True), StoredAnswer(1, Num(0), False),
                   StoredAnswer(2, NaN, False)}] : n \in 0..MaxAnswers}

\* The place of the last answer of the question's order, 0 when there is none.
FindLastAnswer(as, question) ==
  LET hits == {j \in 1..Len(as) : StrictEq(as[j].order, question.order)} IN
  IF hits = {} THEN 0 ELSE CHOOSE j \in hits : \A h \in hits : j >= h

\* answers.find(a => a.order === question.order): the place of the first
\* answer of the question's order, 0 when there is none.
FindAnswer(as, question) ==
  LET hits == {j \in 1..Len(as) : StrictEq(as[j].order, question.order)} IN
  IF hits = {} THEN 0 ELSE CHOOSE j \in hits : \A h \in hits : j <= h

\* Only an explicit skip counts as skipped.
ClassifyNoAnswerWrong(as, question) ==
  LET j == FindAnswer(as, question) IN
  IF j # 0 /\ Truthy(as[j].skipped) THEN "skipped"
  ELSE IF j # 0 /\ StrictEq(as[j].answer, question.correctAnswer) THEN "correct"
  ELSE "other"

\* The branch the loop body takes for one question.
Classify(as, question) ==
  LET j == FindAnswer(as, question) IN
  IF j = 0 \/ Truthy(as[j].skipped) THEN "skipped"
  ELSE IF StrictEq(as[j].answer, question.correctAnswer) THEN "correct"
  ELSE "other"

\* examQuestions.forEach(...) from question i on, with the counters so far.
RECURSIVE ScoreLoop(_, _, _, _, _)
ScoreLoop(questions, as, i, correct, skipped) ==
  IF i > Len(questions) THEN [correctAnswers |-> correct, skippedQuestions |-> skipped]
  ELSE LET branch == Classify(as, questions[i]) IN
       ScoreLoop(questions, as, i + 1,
                 IF branch = "correct" THEN correct + 1 ELSE correct,
                 IF branch = "skipped" THEN skipped + 1 ELSE skipped)

\* wrongAnswers counted over the stored answers instead of the questions.
ResultDataWrongFromAnswers(questions, as) ==
  LET counts == ScoreLoop(questions, as, 1, 0, 0) IN
  [totalQuestions |-> Len(questions),
   correctAnswers |-> counts.correctAnswers,
   skippedQuestions |-> counts.skippedQuestions,
   wrongAnswers |->
     Cardinality({j \in 1..Len(as) :
                    /\ ~Truthy(as[j].skipped)
                    /\ ~\E i \in 1..Len(questions) :
                          /\ FindAnswer(as, questions[i]) = j
                          /\ StrictEq(as[j].answer, questions[i].correctAnswer)})]

\* resultData (the counts).
ResultData(questions, as) ==
  LET counts == ScoreLoop(questions, as, 1, 0, 0) IN
  [totalQuestions |-> Len(questions),
   correctAnswers |-> counts.correctAnswers,
   skippedQuestions |-> counts.skippedQuestions,
   wrongAnswers |-> Len(questions) - (counts.correctAnswers + counts.skippedQuestions)]

\* The scoring of the candidate.
Score ==
  /\ last.op = "none"
  /\ result' = ResultData(exam, sheet)
  /\ last' = Reply("today-exam-results", <<>>, 200, -1, "none", FALSE, FALSE)
  /\ UNCHANGED <<candidates, answers, now, pc, started, exam, sheet>>
  /\ UNCHANGED <<inflight, examDocs, questionDocs, createdOrders, results>>
  /\ UNCHANGED <<students, winners, schedule, gateway, verified, reqs, streams>>

-----------------------------------------------------------------------------
(* The administrator's question handlers *)

\* The clock value after which no handler that reads the clock is started.
MaxClock == 3

ExamTitles == {ExamName.s, <<"Phys101">>}

\* options as the client sends it: the JSON text of an array, one element per
\* character between the brackets.
OptionsText(n) == Str(<<"[">> \o [i \in 1..n |-> "a"] \o <<"]">>)

\* JSON.parse(options): the length of the array, -1 for a value that is no
\* array.
ParsedOptionsLength(v) ==
  IF v.t = "str" /\ Len(v.s) >= 2 /\ Head(v.s) = "[" /\ v.s[Len(v.s)] = "]"
  THEN Len(v.s) - 2 ELSE -1

QuestionBody(q, opts, ca) == [question |-> q, options |-> opts, correctAnswer |-> ca]

\* The status of the validation of both handlers (200: valid).
QuestionBodyStatus(b) ==
  IF ~Truthy(b.question) \/ ~Truthy(b.options) \/ b.correctAnswer = Undef THEN 400
  ELSE IF ParsedOptionsLength(b.options) # 4 \/ ParseInt(b.correctAnswer) = NaN THEN 400
  ELSE 200

\* The ids of the Questions documents of exam e.
QuestionIdsOf(docs, e) == {k[2] : k \in {q \in DOMAIN docs : q[1] = e}}

\* allQuestionsSnapshot.size + 1
NextOrder(docs, e) == Cardinality(QuestionIdsOf(docs, e)) + 1

\* questionData
QuestionData(b, order, t) ==
  [correctAnswer |-> ParseInt(b.correctAnswer), order |-> Num(order),
   timestamp |-> Num(t)]

\* The outcomes of an awaited write of the administrator's handlers.
AdminOutcomes == {"ok", "storeError"}

\* POST /api/exams/:examTitle/questions.  The id add() generates is new: the
\* number of the creation in the exam.
AddQuestion ==
  \* The first or second option as the correct one, and a body per
  \* validation failure.
  \E e \in ExamTitles,
     b \in {QuestionBody(Str(<<"q">>), OptionsText(4), Str(<<"1">>)),
            QuestionBody(Str(<<"q">>), OptionsText(4), Num(0)),
            QuestionBody(Undef, OptionsText(4), Num(0)),
            QuestionBody(Str(<<"q">>), OptionsText(4), Undef),
            QuestionBody(Str(<<"q">>), OptionsText(3), Num(0)),
            QuestionBody(Str(<<"q">>), Str(<<"7">>), Num(0)),
            QuestionBody(Str(<<"q">>), OptionsText(4), Str(<<"x">>))},
     o \in AdminOutcomes :
    LET status == IF QuestionBodyStatus(b) # 200 THEN 400
                  ELSE IF o = "ok" THEN 200 ELSE 500
        order == NextOrder(questionDocs, e)
        id == Len(createdOrders[e]) + 1
    IN /\ now < MaxClock
       /\ now' = now + 1
       /\ IF status = 200
          THEN /\ questionDocs' = DocSet(questionDocs, <<e, id>>, QuestionData(b, order, now))
               /\ createdOrders' = [createdOrders EXCEPT ![e] = Append(@, order)]
          ELSE UNCHANGED <<questionDocs, createdOrders>>
       /\ last' = Reply("add-question", Str(e), status,
                        IF status = 200 THEN order ELSE -1, o, status = 200, FALSE)
       /\ UNCHANGED <<candidates, answers, pc, started, exam, sheet, result>>
       /\ UNCHANGED <<inflight, examDocs, results>>
       /\ UNCHANGED <<students, winners, schedule, gateway, verified, reqs, streams>>

\* updateData
QuestionUpdate(b) == [correctAnswer |-> ParseInt(b.correctAnswer)]

\* PUT /api/exams/:examTitle/questions/:questionId: update() fails on a
\* document that does not exist.
UpdateQuestion ==
  \E e \in ExamTitles, o \in AdminOutcomes,
     b \in {QuestionBody(Str(<<"q">>), OptionsText(4), Str(<<"1">>)),
            QuestionBody(Str(<<"q">>), OptionsText(4), Undef)} :
  \E id \in 1..(Len(createdOrders[e]) + 1) :
    LET status == IF QuestionBodyStatus(b) # 200 THEN 400
                  ELSE IF o = "ok" /\ <<e, id>> \in DOMAIN questionDocs THEN 200
                  ELSE 500
    IN /\ IF status = 200
          THEN questionDocs' = DocUpdate(questionDocs, <<e, id>>, QuestionUpdate(b))
          ELSE UNCHANGED questionDocs
       /\ last' = Reply("update-question", Str(e), status, id, o, status = 200, FALSE)
       /\ UNCHANGED <<candidates, answers, now, pc, started, exam, sheet, result>>
       /\ UNCHANGED <<inflight, examDocs, createdOrders, results>>
       /\ UNCHANGED <<students, winners, schedule, gateway, verified, reqs, streams>>

\* questionDoc.delete(): the collection without the document (no error when
\* there is none).
DocDelete(coll, ref) == [k \in DOMAIN coll \ {ref} |-> coll[k]]

\* DELETE /api/exams/:examTitle/questions/:questionId
DeleteQuestion ==
  \E e \in ExamTitles, o \in AdminOutcomes :
  \E id \in 1..(Len(createdOrders[e]) + 1) :
    /\ IF o = "ok"
       THEN questionDocs' = DocDelete(questionDocs, <<e, id>>)
       ELSE UNCHANGED questionDocs
    /\ last' = Reply("delete-question", Str(e), IF o = "ok" THEN 200 ELSE 500, id, o,
                     o = "ok", FALSE)
    /\ UNCHANGED <<candidates, answers, now, pc, started, exam, sheet, result>>
    /\ UNCHANGED <<inflight, examDocs, createdOrders, results>>
    /\ UNCHANGED <<students, winners, schedule, gateway, verified, reqs, streams>>

-----------------------------------------------------------------------------
(* GET /api/today-exam-results: the whole handler *)

\* The clock value after which no today-exam-results request is started, and
\* the number of clock values of one calendar date.
MaxRunClock == 4
TicksPerDay == 3

Reg3 == <<"REG3">>

\* moment().format('YYYY-MM-DD') at clock t.
Today(t) == Str(<<Digits[(t \div TicksPerDay) + 1]>>)

\* The document ids of the model in the order of their names, in which a
\* collection's get() returns its documents.
DocIdsAscending ==
  <<ExamName.s, <<"Phys101">>, <<"Q", "5">>, <<"Q", "7">>, Reg1, Reg2, Reg3, Reg9>>

IdBefore(a, b) ==
  \E i, j \in 1..Len(DocIdsAscending) :
    i < j /\ DocIdsAscending[i] = a /\ DocIdsAscending[j] = b

\* The ids of S as a sequence in ascending order.
Ascending(S) ==
  CHOOSE f \in [1..Cardinality(S) -> S] :
    \A i, j \in 1..Cardinality(S) : i < j => IdBefore(f[i], f[j])

\* doc.data().f: undefined for a field the document does not have.
Field(doc, f) == IF f \in DOMAIN doc THEN doc[f] ELSE Undef

\* The first exam that has a date, whatever the date.
TodayExamAnyDate(docs, t) ==
  LET titles == Ascending(DOMAIN docs)
      hits == {i \in 1..Len(titles) : Truthy(Field(docs[titles[i]], "date"))}
  IN IF hits = {} THEN {} ELSE {titles[CHOOSE i \in hits : \A h \in hits : i <= h]}

\* The first exam, in the order of examsSnapshot.docs, whose dateTime.date
\* is today: a set with that title, empty when there is none.
TodayExam(docs, t) ==
  LET titles == Ascending(DOMAIN docs)
      hits == {i \in 1..Len(titles) : StrictEq(Field(docs[titles[i]], "date"), Today(t))}
  IN IF hits = {} THEN {} ELSE {titles[CHOOSE i \in hits : \A h \in hits : i <= h]}

\* collection('Questions').orderBy('order').get(): the questions of exam e by
\* order, those of one order by id.
ExamQuestions(docs, e) ==
  LET ids == QuestionIdsOf(docs, e) IN
  CHOOSE f \in [1..Cardinality(ids) -> {docs[<<e, i>>] : i \in ids}] :
    \E g \in [1..Cardinality(ids) -> ids] :
      /\ \A i \in 1..Cardinality(ids) : f[i] = docs[<<e, g[i]>>]
      /\ \A i, j \in 1..Cardinality(ids) :
           i < j => \/ f[i].order.n < f[j].order.n
                    \/ f[i].order.n = f[j].order.n /\ g[i] < g[j]

\* collection('candidates').where('exam', '==', e).get(): the registration
\* numbers of the candidates of exam e.
CandidatesOf(cands, e) ==
  Ascending({r \in DOMAIN cands : StrictEq(Field(cands[r], "exam"), Str(e))})

\* candidateDoc.ref.collection('answers').get()
AnswersOf(ans, reg) ==
  LET ids == Ascending({k[2] : k \in {a \in DOMAIN ans : a[1] = reg}}) IN
  [i \in 1..Len(ids) |-> ans[<<reg, ids[i]>>]]

\* resultData of one candidate; the administrator's server adds submitted
\* and used.
CandidateResult(variant, reg, cand, questions, as) ==
  LET counts == ResultData(questions, as)
      base == [registrationNumber |-> Str(reg),
               candidateName |-> Field(cand, "candidateName"),
               phone |-> Field(cand, "phone"),
               totalQuestions |-> Num(counts.totalQuestions),
               correctAnswers |-> Num(counts.correctAnswers),
               skippedQuestions |-> Num(counts.skippedQuestions),
               wrongAnswers |-> Num(counts.wrongAnswers)]
  IN IF variant = "admin"
     THEN [f \in DOMAIN base \cup {"submitted", "used"} |->
             CASE f = "submitted" -> OrElse(Field(cand, "submitted"), False)
               [] f = "used" -> OrElse(Field(cand, "used"), False)
               [] OTHER -> base[f]]
     ELSE base

\* {...resultData, timestamp: new Date().toISOString()}
Stamped(data, t) ==
  [f \in DOMAIN data \cup {"timestamp"} |-> IF f = "timestamp" THEN Num(t) ELSE data[f]]

\* ref.update(value) in place of ref.set(value): the children of value
\* replace or join those at the path.
RefUpdate(tree, path, value) ==
  [k \in DOMAIN tree \cup {path} |->
     IF k # path THEN tree[k]
     ELSE IF path \notin DOMAIN tree THEN value
     ELSE [f \in DOMAIN tree[k] \cup DOMAIN value |->
             IF f \in DOMAIN value THEN value[f] ELSE tree[k][f]]]

\* realtimeDatabase.ref(path).set(value): the value at the path becomes value.
RefSet(tree, path, value) ==
  [k \in DOMAIN tree \cup {path} |-> IF k = path THEN value ELSE tree[k]]

\* The Results tree after the first k of datas are set, in turn.
RECURSIVE Materialize(_, _, _, _, _)
Materialize(tree, e, datas, k, t) ==
  IF k = 0 THEN tree
  ELSE RefSet(Materialize(tree, e, datas, k - 1, t),
              <<e, datas[k].registrationNumber.s>>, Stamped(datas[k], t))

\* The reply of today-exam-results: results is the list of the 200 body,
\* pushed the resultData computed, stored how many of them were set, failed
\* the candidates the body names as failed.
RunReply(variant, status, pushed, stored) ==
  [op |-> "today-exam-results", body |-> variant, status |-> status, savedCount |-> -1,
   outcome |-> IF status = 500 THEN "storeError" ELSE "ok", written |-> stored > 0,
   repeat |-> FALSE, results |-> IF status = 200 THEN pushed ELSE <<>>,
   pushed |-> pushed, stored |-> stored, failed |-> {}]

\* GET /api/today-exam-results, of either server.  failAt is the candidate at
\* whose set() the store fails (0: at none); set() also throws on a value
\* with an undefined property.  The loop ends at the first failure, and the
\* catch block answers 500.
TodayExamResults ==
  \E variant \in {"admin", "user"}, failAt \in 0..Cardinality(DOMAIN candidates) :
    /\ now < MaxRunClock
    /\ now' = now + 1
    /\ IF TodayExam(examDocs, now) = {}
       THEN /\ failAt = 0
            /\ last' = RunReply(variant, 404, <<>>, 0)
            /\ UNCHANGED results
       ELSE LET e == CHOOSE x \in TodayExam(examDocs, now) : TRUE
                examQuestions == ExamQuestions(questionDocs, e)
                regs == CandidatesOf(candidates, e)
                datas == [i \in 1..Len(regs) |->
                            CandidateResult(variant, regs[i], candidates[regs[i]],
                                            examQuestions, AnswersOf(answers, regs[i]))]
                fails == {i \in 1..Len(regs) : i = failAt \/ HasUndefined(datas[i])}
                stored == IF fails = {} THEN Len(regs)
                          ELSE (CHOOSE i \in fails : \A h \in fails : i <= h) - 1
            IN /\ failAt <= Len(regs)
               /\ results' = Materialize(results, e, datas, stored, now)
               /\ last' = RunReply(variant, IF fails = {} THEN 200 ELSE 500,
                                   SubSeq(datas, 1, IF fails = {} THEN stored ELSE stored + 1),
                                   stored)
    /\ UNCHANGED <<candidates, answers, pc, started, exam, sheet, result>>
    /\ UNCHANGED <<inflight, examDocs, questionDocs, createdOrders>>
    /\ UNCHANGED <<students, winners, schedule, gateway, verified, reqs, streams>>

\* A single answer for question 5 of candidate REG1.
SaveOneAnswer(c) ==
  \E b \in ConcurrentEntries : Handle(c, "save-answer", b, SaveAnswerPlan(b, now))

-----------------------------------------------------------------------------
(* Payment verification: POST /api/verify-payment, /api/verify-pdf-payment *)

\* The reply of a handler outside answer ingestion: the request, the status
\* and the body of the response.
Answer(op, b, status, data) == [op |-> op, body |-> b, status |-> status, data |-> data]

\* String conversion of a value, as + and a template literal do it.
ToText(v) ==
  CASE v.t = "str" -> v.s
    [] v.t = "num" -> <<ToString(v.n)>>
    [] v.t = "undef" -> <<"undefined">>
    [] v.t = "null" -> <<"null">>
    [] v.t = "bool" -> IF v.n = 1 THEN <<"true">> ELSE <<"false">>
    [] OTHER -> <<"NaN">>

\* process.env.RAZORPAY_KEY_SECRET, and a key the server does not hold.
KeySecret == <<"secret">>
ForgedKey == <<"guess">>

\* crypto.createHmac("sha256", key).update(text).digest("hex"): an ideal keyed
\* digest, different for every different (key, text).
Hmac(key, text) == Str(<<"hmac(">> \o key \o <<",">> \o text \o <<")">>)

\* What the gateway holds: payment p1 of order o1 is captured, payment p2 of
\* order o2 is not, payment p3 of order o1 has another amount; it knows no
\* other id.
Payments ==
  (<<"p1">> :> [order_id |-> Str(<<"o1">>), amount |-> Num(100), status |-> "captured"])
    @@ (<<"p2">> :> [order_id |-> Str(<<"o2">>), amount |-> Num(200), status |-> "created"])
    @@ (<<"p3">> :> [order_id |-> Str(<<"o1">>), amount |-> Num(50), status |-> "captured"])

Orders == (<<"o1">> :> [amount |-> Num(100)]) @@ (<<"o2">> :> [amount |-> Num(200)])

PaymentsFetch(paymentId) == [api |-> "payments.fetch", id |-> paymentId]

OrdersFetch(orderId) == [api |-> "orders.fetch", id |-> orderId]

Verdict(status, error, calls) == [status |-> status, error |-> error, calls |-> calls]

\* The handler that fetches the payment and the order before it compares the
\* signatures.
VerifyPaymentFetchFirst(b, o) ==
  LET generated_signature == Hmac(KeySecret, ToText(b.orderId) \o <<"|">> \o ToText(b.paymentId))
      calls == <<PaymentsFetch(b.paymentId), OrdersFetch(b.orderId)>>
  IN IF ~Truthy(b.orderId) \/ ~Truthy(b.paymentId) \/ ~Truthy(b.signature)
       THEN Verdict(400, "Missing required parameters", <<>>)
     ELSE IF b.paymentId.s \notin DOMAIN Payments \/ b.orderId.s \notin DOMAIN Orders
       THEN Verdict(500, "Payment verification failed", calls)
     ELSE IF ~StrictEq(generated_signature, b.signature)
       THEN Verdict(400, "Invalid payment signature", calls)
     ELSE Verdict(200, "", calls)

\* POST /api/verify-payment up to its response: the status, the error and the
\* gateway calls made.
VerifyPayment(b, o) ==
  LET text == ToText(b.orderId) \o <<"|">> \o ToText(b.paymentId)
      generated_signature == Hmac(KeySecret, text)
      payment == Payments[b.paymentId.s]
      order == Orders[b.orderId.s]
  IN IF ~Truthy(b.orderId) \/ ~Truthy(b.paymentId) \/ ~Truthy(b.signature)
       THEN Verdict(400, "Missing required parameters", <<>>)
     ELSE IF ~StrictEq(generated_signature, b.signature)
       THEN Verdict(400, "Invalid payment signature", <<>>)
     ELSE IF o = "paymentFetchFails" \/ b.paymentId.s \notin DOMAIN Payments
       THEN Verdict(500, "Payment verification failed", <<PaymentsFetch(b.paymentId)>>)
     ELSE IF o = "orderFetchFails" \/ b.orderId.s \notin DOMAIN Orders
       THEN Verdict(500, "Payment verification failed",
                    <<PaymentsFetch(b.paymentId), OrdersFetch(b.orderId)>>)
     ELSE LET calls == <<PaymentsFetch(b.paymentId), OrdersFetch(b.orderId)>>
          IN IF ~StrictEq(payment.order_id, b.orderId)
               THEN Verdict(400, "Payment order ID mismatch", calls)
             ELSE IF ~StrictEq(payment.amount, order.amount)
               THEN Verdict(400, "Payment amount mismatch", calls)
             ELSE IF payment.status # "captured"
               THEN Verdict(400, "Payment not captured", calls)
             ELSE Verdict(200, "", calls)

\* POST /api/verify-pdf-payment up to its response: nothing is required, and
\* the gateway is not asked.
VerifyPdfPayment(b) ==
  LET generatedSignature == Hmac(KeySecret, ToText(b.orderId) \o <<"|">> \o ToText(b.paymentId))
  IN IF ~StrictEq(generatedSignature, b.signature)
       THEN Verdict(400, "Invalid pdf payment signature", <<>>)
     ELSE Verdict(200, "", <<>>)

PaymentBodies ==
  [orderId : {Str(<<"o1">>), Str(<<"o2">>), Undef},
   paymentId : {Str(<<"p1">>), Str(<<"p2">>), Str(<<"p3">>), Undef},
   signature : {Hmac(KeySecret, <<"o1", "|", "p1">>), Hmac(KeySecret, <<"o2", "|", "p2">>),
                Hmac(KeySecret, <<"o1", "|", "p3">>), Hmac(KeySecret, <<"o2", "|", "p1">>),
                Hmac(ForgedKey, <<"o1", "|", "p1">>), Undef}]

\* A verify-payment request with one of the bodies is answered; a success is
\* remembered for the pair.
VerifyPaymentOf(bodies) ==
  \* A gateway call answers, or rejects (the id is unknown, or the call fails).
  \E b \in bodies, o \in {"ok", "paymentFetchFails", "orderFetchFails"} :
    LET v == VerifyPayment(b, o)
    IN /\ gateway' = v.calls
       /\ verified' = IF v.status = 200
                        THEN verified \cup {<<b.orderId.s, b.paymentId.s>>}
                        ELSE verified
       /\ last' = Answer("verify-payment", b, v.status, v.error)
       /\ UNCHANGED <<candidates, answers, now, pc, started, exam, sheet, result>>
       /\ UNCHANGED <<inflight, examDocs, questionDocs, createdOrders, results>>
       /\ UNCHANGED <<students, winners, schedule, reqs, streams>>

VerifyPdfPaymentRequest ==
  \E b \in PaymentBodies :
    LET v == VerifyPdfPayment(b)
    IN /\ gateway' = v.calls
       /\ last' = Answer("verify-pdf-payment", b, v.status, v.error)
       /\ UNCHANGED <<candidates, answers, now, pc, started, exam, sheet, result>>
       /\ UNCHANGED <<inflight, examDocs, questionDocs, createdOrders, results>>
       /\ UNCHANGED <<students, winners, schedule, verified, reqs, streams>>

-----------------------------------------------------------------------------
(* Practice-test students and their purchases (Realtime Database)         *)

\* An object of a request body, with the fields it carries.
Obj(fields) == [t |-> "obj", n |-> 0, s |-> <<>>, o |-> fields]

MaxPurchaseClock == 4

\* `STD-${Date.now()}`
StudentId(t) == Str(<<"STD-", ToString(t)>>)

\* orderByChild('studentId').equalTo(studentId): the keys of the matching
\* students; Object.keys(studentData)[0] is the first of them.
StudentKeys(tree, studentId) ==
  {k \in DOMAIN tree : StrictEq(tree[k].studentId, studentId)}

StudentKey(tree, studentId) ==
  CHOOSE k \in StudentKeys(tree, studentId) : \A j \in StudentKeys(tree, studentId) : k <= j

\* ref.push(): a key no child has.
PushKey(tree) == Cardinality(DOMAIN tree) + 1

\* The purchase register-student and update-student add.
FreePurchase(examDetails, t) == [examDetails |-> examDetails, purchaseDate |-> Num(t)]

\* newPurchase of save-exam-purchase.
NewPurchase(b, t) ==
  [examDetails |-> b.examDetails, paymentDetails |-> b.paymentDetails,
   purchaseDate |-> Num(t)]

\* studentData of register-student (of the profile, the name).
StudentData(b, t) ==
  [studentId |-> StudentId(t), name |-> b.name, registrationDate |-> Num(t),
   purchases |-> IF Truthy(b.examDetails) THEN <<FreePurchase(b.examDetails, t)>>
                 ELSE <<>>]

\* The student save-exam-purchase sets: the one read, with the new purchase.
PurchasedStudent(student, b, t) ==
  [student EXCEPT !.purchases = Append(student.purchases, NewPurchase(b, t))]

\* updatedStudentData of update-student.
UpdatedStudentData(student, b, t) ==
  [f \in DOMAIN student \cup {"lastUpdated"} |->
     CASE f = "name" -> OrElse(b.name, student.name)
       [] f = "lastUpdated" -> Num(t)
       [] f = "purchases" -> IF Truthy(b.examDetails)
                               THEN Append(student.purchases, FreePurchase(b.examDetails, t))
                               ELSE student.purchases
       [] OTHER -> student[f]]

\* set() throws on a value that holds undefined.
SetRejects(student) ==
  \/ HasUndefined([f \in DOMAIN student \ {"purchases"} |-> student[f]])
  \/ \E i \in 1..Len(student.purchases) : HasUndefined(student.purchases[i])

\* purchases.some(...) of check-exam-purchase at time t: a purchase of the
\* exam whose duration (in days, 1 when it has none) has not passed.
HasActivePurchase(purchases, examId, t) ==
  \E i \in 1..Len(purchases) :
    LET purchase == purchases[i]
        examDuration == OrElse(Field(purchase.examDetails.o, "duration"), Num(1))
        expirationDate == purchase.purchaseDate.n + examDuration.n * TicksPerDay
    IN StrictEq(Field(purchase.examDetails.o, "id"), examId) /\ t <= expirationDate

\* The students, exams and payments the requests name.
Std0 == StudentId(0)
Std9 == StudentId(9)
ExamE1 == Obj([id |-> Str(<<"e1">>)])

\* No handler of the client is suspended.
Idle == [op |-> "none", pos |-> "idle"]

\* POST /api/register-student
RegisterStudent ==
  \E b \in [name : {Str(<<"A">>)}, examDetails : {ExamE1, Undef}], o \in AdminOutcomes :
    /\ now < MaxPurchaseClock
    /\ now' = now + 1
    /\ IF o = "ok"
         THEN /\ students' = RefSet(students, PushKey(students), StudentData(b, now))
              /\ last' = Answer("register-student", b, 201, StudentId(now))
         ELSE /\ UNCHANGED students
              /\ last' = Answer("register-student", b, 500, Undef)
    /\ UNCHANGED <<candidates, answers, pc, started, exam, sheet, result>>
    /\ UNCHANGED <<inflight, examDocs, questionDocs, createdOrders, results>>
    /\ UNCHANGED <<winners, schedule, gateway, verified, reqs, streams>>

\* GET /api/check-exam-purchase
CheckExamPurchase ==
  \E q \in [studentId : {Std0, Std9}, examId : {Str(<<"e1">>), Str(<<"e2">>)}] :
    /\ now < MaxPurchaseClock
    /\ now' = now + 1
    /\ LET keys == StudentKeys(students, q.studentId)
           student == students[StudentKey(students, q.studentId)]
           purchased == keys # {} /\ HasActivePurchase(student.purchases, q.examId, now)
       IN last' = Answer("check-exam-purchase", q, 200, IF purchased THEN True ELSE False)
    /\ UNCHANGED <<candidates, answers, pc, started, exam, sheet, result>>
    /\ UNCHANGED <<inflight, examDocs, questionDocs, createdOrders, results>>
    /\ UNCHANGED <<students, winners, schedule, gateway, verified, reqs, streams>>

\* save-exam-purchase and update-student up to the await of their query: 404
\* for no student, else the handler holds the student it read and its key.
FindStudent(c, op, b) ==
  /\ reqs[c] = Idle
  /\ IF StudentKeys(students, b.studentId) = {}
       THEN /\ last' = Answer(op, b, 404, Undef)
            /\ UNCHANGED reqs
       ELSE /\ reqs' = [reqs EXCEPT ![c] =
                          [op |-> op, pos |-> "found", body |-> b,
                           studentKey |-> StudentKey(students, b.studentId),
                           student |-> students[StudentKey(students, b.studentId)]]]
            /\ UNCHANGED last
  /\ UNCHANGED <<candidates, answers, now, pc, started, exam, sheet, result>>
  /\ UNCHANGED <<inflight, examDocs, questionDocs, createdOrders, results>>
  /\ UNCHANGED <<students, winners, schedule, gateway, verified, streams>>

\* POST /api/save-exam-purchase, to its query
SaveExamPurchaseFind(c) ==
  \E b \in [studentId : {Std0, Std9},
            examDetails : {Obj([id |-> Str(<<"e2">>), duration |-> Num(1)])},
            paymentDetails : {Obj([orderId |-> Str(<<"o1">>), paymentId |-> Str(<<"p1">>)]),
                              Undef}] :
    FindStudent(c, "save-exam-purchase", b)

\* PUT /api/update-student/:studentId, to its query
UpdateStudentFind(c) ==
  \E b \in [studentId : {Std0}, name : {Str(<<"B">>)}, examDetails : {ExamE1, Undef}] :
    FindStudent(c, "update-student", b)

\* The handler of client c goes on from its query: it sets the student it
\* built from the one it read, and answers.
SetStudent(c) ==
  \E o \in AdminOutcomes :
    /\ reqs[c].pos = "found"
    /\ reqs[c].op \in {"save-exam-purchase", "update-student"}
    /\ now < MaxPurchaseClock
    /\ now' = now + 1
    /\ LET r == reqs[c]
           student == IF r.op = "save-exam-purchase"
                        THEN PurchasedStudent(r.student, r.body, now)
                        ELSE UpdatedStudentData(r.student, r.body, now)
           status == IF r.op = "save-exam-purchase" THEN 201 ELSE 200
       IN IF o = "ok" /\ ~SetRejects(student)
            THEN /\ students' = RefSet(students, r.studentKey, student)
                 /\ last' = Answer(r.op, r.body, status, Num(Len(student.purchases) - 1))
            ELSE /\ UNCHANGED students
                 /\ last' = Answer(r.op, r.body, 500, Undef)
    /\ reqs' = [reqs EXCEPT ![c] = Idle]
    /\ UNCHANGED <<candidates, answers, pc, started, exam, sheet, result>>
    /\ UNCHANGED <<inflight, examDocs, questionDocs, createdOrders, results>>
    /\ UNCHANGED <<winners, schedule, gateway, verified, streams>>

-----------------------------------------------------------------------------
(* POST /api/save-winner-choice *)

\* The response decided before the store is asked: 400 for a missing field or
\* an option other than product and cash, else none yet (0).
WinnerBodyStatus(b) ==
  IF ~Truthy(b.examTitle) \/ ~Truthy(b.registrationNumber) \/ ~Truthy(b.rank)
       \/ ~Truthy(b.selectedOption)
    THEN 400
  ELSE IF b.selectedOption \notin {Str(<<"product">>), Str(<<"cash">>)} THEN 400
  ELSE 0

\* `Winners/${examTitle}/${registrationNumber}`
WinnerPath(b) == <<ToText(b.examTitle), ToText(b.registrationNumber)>>

\* winnerData (the key-value store holds no candidates tree, so no
\* candidateDetails are added).
WinnerData(b, t) ==
  [registrationNumber |-> b.registrationNumber, examTitle |-> b.examTitle,
   rank |-> b.rank, selectedOption |-> b.selectedOption,
   status |-> Str(<<"pending">>), dateCreated |-> Today(t)]

\* The handler to the await of its exists() check: 400, 409 when a choice is
\* stored, else it goes on with the winnerData it prepared.
SaveWinnerChoiceCheck(c) ==
  \E b \in [examTitle : {ExamName}, registrationNumber : {Str(Reg1), Undef},
            rank : {Num(1)},
            selectedOption : {Str(<<"product">>), Str(<<"cash">>), Str(<<"gift">>)}] :
    /\ reqs[c] = Idle
    /\ IF WinnerBodyStatus(b) = 400
         THEN /\ last' = Answer("save-winner-choice", b, 400, Undef)
              /\ UNCHANGED <<now, reqs>>
         ELSE /\ now < MaxClock
              /\ now' = now + 1
              /\ IF WinnerPath(b) \in DOMAIN winners
                   THEN /\ last' = Answer("save-winner-choice", b, 409, Undef)
                        /\ UNCHANGED reqs
                   ELSE /\ reqs' = [reqs EXCEPT ![c] =
                                      [op |-> "save-winner-choice", pos |-> "checked",
                                       body |-> b, winnerData |-> WinnerData(b, now)]]
                        /\ UNCHANGED last
    /\ UNCHANGED <<candidates, answers, pc, started, exam, sheet, result>>
    /\ UNCHANGED <<inflight, examDocs, questionDocs, createdOrders, results>>
    /\ UNCHANGED <<students, winners, schedule, gateway, verified, streams>>

\* The handler of client c goes on from its check: winnerRef.set(winnerData)
\* and 200, or 500 when the store fails.
SaveWinnerChoiceSet(c) ==
  \E o \in AdminOutcomes :
    /\ reqs[c].pos = "checked"
    /\ LET r == reqs[c]
       IN IF o = "ok"
            THEN /\ winners' = RefSet(winners, WinnerPath(r.body), r.winnerData)
                 /\ last' = Answer("save-winner-choice", r.body, 200, r.winnerData.selectedOption)
            ELSE /\ UNCHANGED winners
                 /\ last' = Answer("save-winner-choice", r.body, 500, Undef)
    /\ reqs' = [reqs EXCEPT ![c] = Idle]
    /\ UNCHANGED <<candidates, answers, now, pc, started, exam, sheet, result>>
    /\ UNCHANGED <<inflight, examDocs, questionDocs, createdOrders, results>>
    /\ UNCHANGED <<students, schedule, gateway, verified, streams>>

-----------------------------------------------------------------------------
(* POST /api/register *)

\* `REG${Date.now()}`
UniqueRegisterNo(t) == <<"REG" \o ToString(t)>>

\* requiredFields (of those the model keeps), and the photo.
RegisterBodyStatus(b) ==
  IF \E f \in RequiredFields : ~Truthy(b[f]) THEN 400
  ELSE IF ~b.photo THEN 400
  ELSE 0

\* candidateData
CandidateData(b, t) ==
  [f \in RequiredFields \cup {"registrationNumber", "createdAt", "used"} |->
     CASE f = "registrationNumber" -> Str(UniqueRegisterNo(t))
       [] f = "createdAt" -> Num(t)
       [] f = "used" -> False
       [] OTHER -> b[f]]

\* The handler: the clock it reads names the document it sets; the clock may
\* or may not have moved on when the next request is handled.
Register ==
  \* The forms sent: candidate A or B (or no name) for the exam of day 0,
  \* with or without a photo.
  \E b \in {[candidateName |-> name, gender |-> Str(<<"F">>), dob |-> Str(<<"2000">>),
             district |-> Str(<<"D">>), phone |-> Str(<<"9">>), exam |-> ExamName,
             examDate |-> Str(<<"0">>), examStartTime |-> Str(<<"10:00 AM">>),
             examEndTime |-> Str(<<"11:00 AM">>), photo |-> photo] :
              name \in {Str(<<"A">>), Str(<<"B">>), Undef}, photo \in BOOLEAN},
     o \in AdminOutcomes, tick \in {0, 1} :
    /\ now < MaxClock
    /\ now' = now + tick
    /\ IF RegisterBodyStatus(b) = 400
         THEN /\ last' = Answer("register", b, 400, Undef)
              /\ UNCHANGED candidates
         ELSE IF o = "ok"
           THEN /\ candidates' = DocSet(candidates, UniqueRegisterNo(now), CandidateData(b, now))
                /\ last' = Answer("register", b, 201, Str(UniqueRegisterNo(now)))
           ELSE /\ UNCHANGED candidates
                /\ last' = Answer("register", b, 500, Undef)
    /\ UNCHANGED <<answers, pc, started, exam, sheet, result>>
    /\ UNCHANGED <<inflight, examDocs, questionDocs, createdOrders, results>>
    /\ UNCHANGED <<students, winners, schedule, gateway, verified, reqs, streams>>

-----------------------------------------------------------------------------
(* The exam schedule: POST /api/exams/:examTitle/date-time, and the       *)
(* server-push streams GET /api/exams and GET /api/today-exams            *)

\* (0?[1-9]|1[0-2])
IsHour(h) ==
  \/ Len(h) = 1 /\ IsDigit(h[1]) /\ h[1] # "0"
  \/ Len(h) = 2 /\ h[1] = "0" /\ IsDigit(h[2]) /\ h[2] # "0"
  \/ Len(h) = 2 /\ h[1] = "1" /\ h[2] \in {"0", "1", "2"}

\* (AM|PM), whatever the case
IsMeridiem(m) == Len(m) = 2 /\ m[1] \in {"A", "a", "P", "p"} /\ m[2] \in {"M", "m"}

\* timeRegex.test(v), for /^(0?[1-9]|1[0-2]):[0-5][0-9]\s?(AM|PM)$/i
TimeRegexTest(v) ==
  \E k \in 1..Len(v.s) :
    /\ v.s[k] = ":"
    /\ IsHour(SubSeq(v.s, 1, k - 1))
    /\ LET rest == SubSeq(v.s, k + 1, Len(v.s))
       IN /\ Len(rest) \in {4, 5}
          /\ rest[1] \in {"0", "1", "2", "3", "4", "5"}
          /\ IsDigit(rest[2])
          /\ Len(rest) = 5 => rest[3] = " "
          /\ IsMeridiem(SubSeq(rest, Len(rest) - 1, Len(rest)))

\* moment(time, 'hh:mm A'): the minute of the day.
MinuteOfDay(cs) ==
  LET k == CHOOSE i \in 1..Len(cs) : cs[i] = ":"
      hour == IF k = 2 THEN DigitVal(cs[1]) ELSE 10 * DigitVal(cs[1]) + DigitVal(cs[2])
      minute == 10 * DigitVal(cs[k + 1]) + DigitVal(cs[k + 2])
      pm == cs[Len(cs) - 1] \in {"P", "p"}
  IN ((hour % 12) + (IF pm THEN 12 ELSE 0)) * 60 + minute

\* The response decided before a store is asked: 400, or none yet (0).
DateTimeBodyStatus(b) ==
  IF ~Truthy(b.date) \/ ~Truthy(b.startTime) \/ ~Truthy(b.endTime)
       \/ b.marks = Undef \/ b.price = Undef
    THEN 400
  ELSE IF ~TimeRegexTest(b.startTime) \/ ~TimeRegexTest(b.endTime) THEN 400
  ELSE 0

\* What both stores are given (updatedAt is the store's own time).
DateTimeData(b, t) ==
  [date |-> b.date, startTime |-> b.startTime, endTime |-> b.endTime,
   marks |-> b.marks, price |-> b.price, updatedAt |-> Num(t)]

\* examRef.set({dateTime: ...}, {merge: true}): the fields given replace or
\* join those of the document.
SetMerge(coll, ref, data) ==
  [k \in DOMAIN coll \cup {ref} |->
     IF k # ref THEN coll[k]
     ELSE IF ref \notin DOMAIN coll THEN data
     ELSE [f \in DOMAIN coll[k] \cup DOMAIN data |->
             IF f \in DOMAIN data THEN data[f] ELSE coll[k][f]]]

Time0145PM == Str(<<"1", ":", "4", "5", " ", "P", "M">>)

\* The endpoints a client streams from (one connection to each), and the
\* path of the key-value store whose value events each listens to.
StreamPaths == {"exams", "today-exams"}

ListensTo(s) == IF s = "exams" THEN "Exams" ELSE "ExamDateTime"

Closed == [open |-> FALSE, event |-> FALSE, stale |-> FALSE]

\* The store raises a value event at ExamDateTime: the listeners on that path
\* will be called; every open stream is now behind the stored schedule.
ValueEvent(strs, path) ==
  [s \in DOMAIN strs |->
     IF ~strs[s].open THEN strs[s]
     ELSE [open |-> TRUE, event |-> strs[s].event \/ ListensTo(s) = path, stale |-> TRUE]]

\* The handler to its second await: 400, or the set() of ExamDateTime/<title>
\* (500 when it fails).
SaveDateTimeRealtime(c) ==
  \E b \in [date : {Str(<<"0">>), Str(<<"1">>)},
            startTime : {Str(<<"8", ":", "0", "0", " ", "A", "M">>),
                         Str(<<"1", "3", ":", "0", "0", " ", "P", "M">>)},
            endTime : {Time0145PM}, marks : {Num(100), Undef}, price : {Num(50)}],
     o \in AdminOutcomes :
    LET examTitle == ExamName.s
        after == RefSet(schedule, examTitle, DateTimeData(b, now))
    IN /\ reqs[c] = Idle
       /\ IF DateTimeBodyStatus(b) = 400
            THEN /\ last' = Answer("date-time", b, 400, Undef)
                 /\ UNCHANGED <<schedule, reqs, streams>>
          ELSE IF o = "storeError"
            THEN /\ last' = Answer("date-time", b, 500, Undef)
                 /\ UNCHANGED <<schedule, reqs, streams>>
          ELSE /\ schedule' = after
               /\ streams' = IF after = schedule THEN streams
                             ELSE ValueEvent(streams, "ExamDateTime")
               /\ reqs' = [reqs EXCEPT ![c] =
                             [op |-> "date-time", pos |-> "realtimeSet",
                              examTitle |-> examTitle, body |-> b]]
               /\ UNCHANGED last
       /\ UNCHANGED <<candidates, answers, now, pc, started, exam, sheet, result>>
       /\ UNCHANGED <<inflight, examDocs, questionDocs, createdOrders, results>>
       /\ UNCHANGED <<students, winners, gateway, verified>>

\* The handler of client c goes on: the set() of Exams/<title> with merge,
\* and 200 (500 when it fails).
SaveDateTimeFirestore(c) ==
  \E o \in AdminOutcomes :
    /\ reqs[c].pos = "realtimeSet"
    /\ LET r == reqs[c]
       IN IF o = "ok"
            THEN /\ examDocs' = SetMerge(examDocs, r.examTitle, DateTimeData(r.body, now))
                 /\ last' = Answer("date-time", r.body, 200, Str(r.examTitle))
            ELSE /\ UNCHANGED examDocs
                 /\ last' = Answer("date-time", r.body, 500, Undef)
    /\ reqs' = [reqs EXCEPT ![c] = Idle]
    /\ UNCHANGED <<candidates, answers, now, pc, started, exam, sheet, result>>
    /\ UNCHANGED <<inflight, questionDocs, createdOrders, results>>
    /\ UNCHANGED <<students, winners, schedule, gateway, verified, streams>>

\* The keys of a tree of the key-value store, in the order a snapshot lists
\* its children.
KeysAscending(tree) == SelectSeq(DocIdsAscending, LAMBDA k : k \in DOMAIN tree)

\* Exam i comes before exam j: it starts earlier, or at the same minute and
\* was before it.
StartsBefore(exams, i, j) ==
  \/ MinuteOfDay(exams[i].startTime.s) < MinuteOfDay(exams[j].startTime.s)
  \/ /\ MinuteOfDay(exams[i].startTime.s) = MinuteOfDay(exams[j].startTime.s)
     /\ i < j

\* .sort((a, b) => moment(a.startTime, 'hh:mm A').diff(moment(b.startTime, 'hh:mm A')))
SortByStartTime(exams) ==
  [p \in 1..Len(exams) |->
     exams[CHOOSE i \in 1..Len(exams) :
             Cardinality({j \in 1..Len(exams) : StartsBefore(exams, j, i)}) = p - 1]]

\* sendData of /api/exams: every exam of ExamDateTime, by key.
ExamsSnapshot(tree) ==
  LET ids == KeysAscending(tree)
  IN [i \in 1..Len(ids) |->
        [f \in DOMAIN tree[ids[i]] \cup {"id", "examDetails", "questions"} |->
           CASE f = "id" -> Str(ids[i])
             [] f = "examDetails" -> Obj(<<>>)
             [] f = "questions" -> Obj(<<>>)
             [] OTHER -> tree[ids[i]][f]]]

\* Object.entries(allExams || {}).filter(([_, exam]) => exam.date === today)
\* .map(...): the exams of the day, each with its id.
ExamsOfDay(tree, t) ==
  LET ids == KeysAscending(tree)
  IN SelectSeq([i \in 1..Len(ids) |->
                  [f \in DOMAIN tree[ids[i]] \cup {"id"} |->
                     IF f = "id" THEN Str(ids[i]) ELSE tree[ids[i]][f]]],
               LAMBDA x : StrictEq(x.date, Today(t)))

\* sendExamData of /api/today-exams: the exams whose date is today, by
\* start time.
TodayExams(tree, t) ==
  CHOOSE sorted \in {SortByStartTime(todayExams) : todayExams \in {ExamsOfDay(tree, t)}} :
    TRUE

\* An array, as a value.
Arr(items) == [t |-> "arr", n |-> 0, s |-> <<>>, items |-> items]

\* The data a stream writes to its client.
SendData(s, tree, t) ==
  Arr(IF s = "exams" THEN ExamsSnapshot(tree) ELSE TodayExams(tree, t))

\* A client connects to the stream: it is sent the data, and the listener is
\* attached (which the store calls once with the present value).
Connect(s) ==
  /\ ~streams[s].open
  /\ streams' = [streams EXCEPT ![s] = [open |-> TRUE, event |-> TRUE, stale |-> FALSE]]
  /\ last' = Answer("connect", Str(<<s>>), 200, SendData(s, schedule, now))
  /\ UNCHANGED <<candidates, answers, now, pc, started, exam, sheet, result>>
  /\ UNCHANGED <<inflight, examDocs, questionDocs, createdOrders, results>>
  /\ UNCHANGED <<students, winners, schedule, gateway, verified, reqs>>

\* onUpdate / handleUpdate: the listener is called for a value event, and
\* sends the data as it now is.
OnUpdate(s) ==
  /\ streams[s].open
  /\ streams[s].event
  /\ streams' = [streams EXCEPT ![s] = [open |-> TRUE, event |-> FALSE, stale |-> FALSE]]
  /\ last' = Answer("push", Str(<<s>>), 200, SendData(s, schedule, now))
  /\ UNCHANGED <<candidates, answers, now, pc, started, exam, sheet, result>>
  /\ UNCHANGED <<inflight, examDocs, questionDocs, createdOrders, results>>
  /\ UNCHANGED <<students, winners, schedule, gateway, verified, reqs>>

\* req.on('close'): the listener is removed.
Close(s) ==
  /\ streams[s].open
  /\ streams' = [streams EXCEPT ![s] = Closed]
  /\ last' = Answer("close", Str(<<s>>), 0, Undef)
  /\ UNCHANGED <<candidates, answers, now, pc, started, exam, sheet, result>>
  /\ UNCHANGED <<inflight, examDocs, questionDocs, createdOrders, results>>
  /\ UNCHANGED <<students, winners, schedule, gateway, verified, reqs>>

-----------------------------------------------------------------------------
(* Initial state *)

\* A candidate as POST /api/register stores it (for an exam on day d).
Registered(d) ==
  [candidateName |-> Str(<<"A">>), gender |-> Str(<<"F">>), dob |-> Str(<<"2000">>),
   district |-> Str(<<"D">>), phone |-> Str(<<"9">>), exam |-> ExamName,
   examDate |-> Str(<<Digits[d + 1]>>), examStartTime |-> Str(<<"10:00 AM">>),
   examEndTime |-> Str(<<"11:00 AM">>), used |-> False]

NoReply == Reply("none", <<>>, 0, -1, "none", FALSE, FALSE)

NoResult == [totalQuestions |-> 0, correctAnswers |-> 0, skippedQuestions |-> 0,
             wrongAnswers |-> 0]

\* No request of the client is waiting for the store.
NoPlan == [op |-> "none", body |-> <<>>, ops |-> <<>>, savedCount |-> -1,
           state |-> "none"]

\* The store as the administrator has set it up: the exam Math101 on day 0,
\* with no question yet; no result materialized.
\* Outside the exam itself: the key-value store holds the schedule the
\* document store holds, no student and no winner; no payment was verified,
\* no handler is suspended and no stream is open.
InitPortal ==
  /\ students = <<>>
  /\ winners = <<>>
  /\ schedule = examDocs
  /\ gateway = <<>>
  /\ verified = {}
  /\ reqs = [c \in Clients |-> Idle]
  /\ streams = [s \in StreamPaths |-> Closed]

InitAdmin ==
  /\ inflight = [c \in Clients |-> NoPlan]
  /\ examDocs = (ExamName.s :> [date |-> Num(0)])
  /\ questionDocs = <<>>
  /\ createdOrders = [e \in ExamTitles |-> <<>>]
  /\ results = <<>>
  /\ InitPortal

Init ==
  /\ candidates = (Reg1 :> Registered(0)) @@ (Reg2 :> Registered(1))
  /\ answers = <<>>
  /\ now = 0
  /\ pc = [c \in Clients |-> "idle"]
  /\ last = NoReply
  /\ started = [r \in {Reg1, Reg2, Reg9} |-> 0]
  /\ exam = <<>>
  /\ sheet = <<>>
  /\ result = NoResult
  /\ InitAdmin

Next ==
  \/ \E c \in Clients : SaveAnswer(c)
  \/ \E c \in Clients : SaveAllAnswers(c)
  \/ \E c \in Clients : TimeoutSaveAnswers(c)
  \/ \E c \in Clients : CompleteExam(c)

Spec == Init /\ [][Next]_vars

\* Concurrent ingestion: a handler runs to its await, and the store completes
\* the awaited writes of the waiting handlers in any order.
NextConcurrent ==
  \/ \E c \in Clients : ReceiveSaveAnswer(c)
  \/ \E c \in Clients : ReceiveSaveAllAnswers(c)
  \/ \E c \in Clients : ReceiveTimeoutSaveAnswers(c)
  \/ \E c \in Clients : ReceiveCompleteExam(c)
  \/ \E c \in Clients : WriteCompletes(c)

SpecConcurrent == Init /\ [][NextConcurrent]_vars

\* Scoring starts with Math101 (two questions) and Phys101 (one question)
\* scheduled on any of the days, REG1 and REG2 registered to Math101 and REG3
\* to Phys101, and no answer stored.
InitResults ==
  /\ candidates = (Reg1 :> Registered(0)) @@ (Reg2 :> Registered(0))
                    @@ (Reg3 :> [Registered(0) EXCEPT !.exam = Str(<<"Phys101">>)])
  /\ answers = <<>>
  /\ now = 0
  /\ pc = [c \in Clients |-> "idle"]
  /\ last = NoReply
  /\ started = [r \in {Reg1, Reg2, Reg9} |-> 0]
  /\ exam = <<>>
  /\ sheet = <<>>
  /\ result = NoResult
  /\ inflight = [c \in Clients |-> NoPlan]
  /\ examDocs \in [ExamTitles ->
                     {[date |-> d] : d \in {Str(<<"0">>), Str(<<"1">>), Undef}}]
  /\ questionDocs =
       (<<ExamName.s, 1>> :> [correctAnswer |-> Num(2), order |-> Num(1), timestamp |-> Num(0)])
         @@ (<<ExamName.s, 2>> :> [correctAnswer |-> Num(0), order |-> Num(2), timestamp |-> Num(0)])
         @@ (<<<<"Phys101">>, 1>> :> [correctAnswer |-> Num(1), order |-> Num(1), timestamp |-> Num(0)])
  /\ createdOrders = (ExamName.s :> <<1, 2>>) @@ (<<"Phys101">> :> <<1>>)
  /\ results = <<>>
  /\ InitPortal

NextResults == TodayExamResults \/ \E c \in Clients : SaveOneAnswer(c)

SpecResults == InitResults /\ [][NextResults]_vars

NextQuestions == AddQuestion \/ UpdateQuestion \/ DeleteQuestion

SpecQuestions == Init /\ [][NextQuestions]_vars

NextStart == \E c \in Clients : ValidateRegistration(c) \/ StartExam(c)

SpecStart == Init /\ [][NextStart]_vars

\* Scoring starts from any exam and any stored answers.
InitScore ==
  /\ candidates = (Reg1 :> Registered(0))
  /\ answers = <<>>
  /\ now = 0
  /\ pc = [c \in Clients |-> "idle"]
  /\ last = NoReply
  /\ started = [r \in {Reg1, Reg2, Reg9} |-> 0]
  /\ exam \in Exams
  /\ sheet \in Sheets
  /\ result = NoResult
  /\ InitAdmin

NextScore == Score

SpecScore == InitScore /\ [][NextScore]_vars

\* Payment verification alone.
NextPayments == VerifyPaymentOf(PaymentBodies) \/ VerifyPdfPaymentRequest

SpecPayments == Init /\ [][NextPayments]_vars

\* Payment and access: a student registers, payments are verified, one
\* client saves purchases, and access is checked.
NextPurchases ==
  \/ RegisterStudent
  \/ CheckExamPurchase
  \/ VerifyPaymentOf([orderId : {Str(<<"o1">>)}, paymentId : {Str(<<"p1">>)},
                      signature : {Hmac(KeySecret, <<"o1", "|", "p1">>),
                                   Hmac(ForgedKey, <<"o1", "|", "p1">>)}])
  \/ SaveExamPurchaseFind("c1")
  \/ SetStudent("c1")

\* Concurrent requests for one student: the handlers that read and then
\* write, split at the await between the two.
NextStudents ==
  \/ \E c \in Clients : SaveExamPurchaseFind(c)
  \/ \E c \in Clients : UpdateStudentFind(c)
  \/ \E c \in Clients : SetStudent(c)

\* Student A registered at time 0, with no purchase.
InitPurchases ==
  /\ candidates = (Reg1 :> Registered(0)) @@ (Reg2 :> Registered(1))
  /\ answers = <<>>
  /\ now = 1
  /\ pc = [c \in Clients |-> "idle"]
  /\ last = NoReply
  /\ started = [r \in {Reg1, Reg2, Reg9} |-> 0]
  /\ exam = <<>>
  /\ sheet = <<>>
  /\ result = NoResult
  /\ inflight = [c \in Clients |-> NoPlan]
  /\ examDocs = (ExamName.s :> [date |-> Num(0)])
  /\ questionDocs = <<>>
  /\ createdOrders = [e \in ExamTitles |-> <<>>]
  /\ results = <<>>
  /\ students = (1 :> StudentData([name |-> Str(<<"A">>), examDetails |-> Undef], 0))
  /\ winners = <<>>
  /\ schedule = examDocs
  /\ gateway = <<>>
  /\ verified = {}
  /\ reqs = [c \in Clients |-> Idle]
  /\ streams = [s \in StreamPaths |-> Closed]

SpecPurchases == InitPurchases /\ [][NextPurchases]_vars

SpecStudents == InitPurchases /\ [][NextStudents]_vars

NextWinners ==
  \/ \E c \in Clients : SaveWinnerChoiceCheck(c)
  \/ \E c \in Clients : SaveWinnerChoiceSet(c)

SpecWinners == Init /\ [][NextWinners]_vars

\* Registration from an empty candidates collection, with the gate.
InitRegister ==
  /\ candidates = <<>>
  /\ answers = <<>>
  /\ now = 0
  /\ pc = [c \in Clients |-> "idle"]
  /\ last = NoReply
  /\ started = [r \in {Reg1, Reg2, Reg9} |-> 0]
  /\ exam = <<>>
  /\ sheet = <<>>
  /\ result = NoResult
  /\ InitAdmin

NextRegister ==
  \/ Register
  \/ \E c \in Clients : ValidateRegistration(c)

SpecRegister == InitRegister /\ [][NextRegister]_vars

\* The schedule: Math101 at 1:45 PM and Phys101 at 09:00am of day 0, in both
\* stores.
InitSchedule ==
  /\ candidates = (Reg1 :> Registered(0)) @@ (Reg2 :> Registered(1))
  /\ answers = <<>>
  /\ now = 0
  /\ pc = [c \in Clients |-> "idle"]
  /\ last = NoReply
  /\ started = [r \in {Reg1, Reg2, Reg9} |-> 0]
  /\ exam = <<>>
  /\ sheet = <<>>
  /\ result = NoResult
  /\ inflight = [c \in Clients |-> NoPlan]
  /\ examDocs =
       (ExamName.s :> DateTimeData([date |-> Str(<<"0">>), startTime |-> Time0145PM,
                                    endTime |-> Time0145PM, marks |-> Num(100),
                                    price |-> Num(50)], 0))
         @@ (<<"Phys101">> :>
               DateTimeData([date |-> Str(<<"0">>),
                             startTime |-> Str(<<"0", "9", ":", "0", "0", "a", "m">>),
                             endTime |-> Time0145PM, marks |-> Num(100),
                             price |-> Num(50)], 0))
  /\ questionDocs = <<>>
  /\ createdOrders = [e \in ExamTitles |-> <<>>]
  /\ results = <<>>
  /\ InitPortal

NextSchedule ==
  \/ \E c \in Clients : SaveDateTimeRealtime(c)
  \/ \E c \in Clients : SaveDateTimeFirestore(c)
  \/ \E s \in StreamPaths : Connect(s)
  \/ \E s \in StreamPaths : OnUpdate(s)
  \/ \E s \in StreamPaths : Close(s)

SpecSchedule == InitSchedule /\ [][NextSchedule]_vars

\* The event loop calls a listener whose value event is waiting.
SpecStreams ==
  InitSchedule /\ [][NextSchedule]_vars /\ \A s \in StreamPaths : WF_vars(OnUpdate(s))

-----------------------------------------------------------------------------
(* Answer ingestion: the properties *)

\* The four ingestion paths.
IngestionOps ==
  {"save-answer", "save-all-answers", "timeout-save-answers", "complete-exam"}

\* A step that handles a request of path op.
Handles(op) == now' # now /\ last'.op = op

\* The question id with the marker put in front unless it is there.
Canonical(q) == IF Len(q) > 0 /\ q[1] = "Q" THEN q ELSE <<"Q">> \o q

\* The question id without its marker.
Unmarked(q) == IF Len(q) > 0 /\ q[1] = "Q" THEN SubSeq(q, 2, Len(q)) ELSE q

\* An entry a timeout save is to persist.
IsAttempted(e) == e.skipped \notin {True} /\ e.answer \notin {Null, Undef}

\* The entries request r (a value of last) is to persist, as a set of
\* <<registration number, entry>>.
EntriesToPersist(r) ==
  CASE r.op = "save-answer" -> {<<r.body.registrationNumber.s, r.body>>}
    [] r.op = "save-all-answers" ->
         {<<r.body.answers[i].registrationNumber.s, r.body.answers[i]>> :
            i \in 1..Len(r.body.answers)}
    [] r.op = "timeout-save-answers" ->
         {<<r.body.answers[i].registrationNumber.s, r.body.answers[i]>> :
            i \in {j \in 1..Len(r.body.answers) : IsAttempted(r.body.answers[j])}}
    [] r.op = "complete-exam" ->
         {<<r.body.candidateId.s, r.body.answers[i]>> : i \in 1..Len(r.body.answers)}
    [] OTHER -> {}

\* The slot of an entry to persist.
SlotOf(re) == <<re[1], Canonical(re[2].questionId.s)>>

\* C1: a complete-exam request either sets the candidate's submitted flag and
\* stores every answer of the request, or leaves the candidate and every
\* answer as they were, whether the store rejects the commit or the process
\* dies.
CompleteExamAllOrNothing ==
  [][Handles("complete-exam") =>
       \/ UNCHANGED <<candidates, answers>>
       \/ LET b == last'.body
              reg == b.candidateId.s
          IN /\ reg \in DOMAIN candidates'
             /\ "submitted" \in DOMAIN candidates'[reg]
             /\ candidates'[reg].submitted = True
             /\ candidates'[reg].examCompletedAt = Num(now)
             /\ \A i \in 1..Len(b.answers) :
                  LET k == <<reg, Canonical(b.answers[i].questionId.s)>> IN
                  /\ k \in DOMAIN answers'
                  /\ answers'[k].timestamp = Num(now)
                  /\ answers'[k].examName = b.examName
                  /\ answers'[k].submittedVia = Str(<<"completion">>)]_vars

\* A completion of two answers in two slots was committed.
CompleteExamCommitted ==
  /\ last.op = "complete-exam"
  /\ last.written
  /\ Cardinality({SlotOf(re) : re \in EntriesToPersist(last)}) = 2
  /\ candidates[Reg1].submitted = True

\* The provenance tags.
ProvenanceTags == {Str(<<"individual">>), Str(<<"completion">>), Str(<<"timeout">>)}

\* The tag of a path; the bulk save has none among the three.
TagOf(op) ==
  CASE op = "save-answer" -> {Str(<<"individual">>)}
    [] op = "complete-exam" -> {Str(<<"completion">>)}
    [] op = "timeout-save-answers" -> {Str(<<"timeout">>)}
    [] OTHER -> {}

\* The fields of d are those of the write of request r: nothing else is left
\* in it.
OnlyFieldsOf(d, r) ==
  /\ DOMAIN d \subseteq
       {"examName", "timestamp", "order", "answer", "skipped", "submittedVia"}
  /\ d.examName = ExamName
  /\ \E re \in EntriesToPersist(r) : d.order = re[2].order

\* C2: when a request B of any path overwrites a slot an earlier request A
\* wrote, the slot holds exactly B's fields, B's provenance tag among them,
\* and nothing of A.
LastWriteWinsWithTag ==
  [][(\E op \in IngestionOps : Handles(op)) /\ last'.written =>
       \A re \in EntriesToPersist(last') :
         SlotOf(re) \in DOMAIN answers =>
           LET d == answers'[SlotOf(re)] IN
           /\ d.timestamp = Num(now)
           /\ OnlyFieldsOf(d, last')
           /\ "submittedVia" \in DOMAIN d
           /\ d.submittedVia \in TagOf(last'.op)]_vars

\* The overwrite itself is total: after B the slot has B's timestamp, B's
\* fields, and a provenance tag only if B's path writes one (then B's).
LastWriteWinsNoMerge ==
  [][(\E op \in IngestionOps : Handles(op)) /\ last'.written =>
       \A re \in EntriesToPersist(last') :
         SlotOf(re) \in DOMAIN answers =>
           LET d == answers'[SlotOf(re)] IN
           /\ d.timestamp = Num(now)
           /\ OnlyFieldsOf(d, last')
           /\ "submittedVia" \in DOMAIN d => d.submittedVia \in TagOf(last'.op)]_vars

\* C3: on every path an answer is stored under q when q starts with "Q" and
\* under "Q" + q otherwise: the stored key is the marker followed by the id
\* without its marker, and no document is stored under another key.
QuestionIdCanonical ==
  /\ last.written =>
       \A re \in EntriesToPersist(last) :
         LET q == re[2].questionId.s
             k == <<re[1], IF q[1] = "Q" THEN q ELSE <<"Q">> \o q>>
         IN /\ k \in DOMAIN answers
            /\ answers[k].timestamp = Num(now - 1)
            /\ k[2] = <<"Q">> \o Unmarked(q)
  /\ \A k \in DOMAIN answers : k[2] \in {<<"Q", "5">>, <<"Q", "7">>}

\* An id sent without the marker is stored in the slot of the marked id.
UnmarkedIdStored ==
  /\ last.written
  /\ \E re \in EntriesToPersist(last) : re[2].questionId.s = <<"5">>
  /\ DOMAIN answers = {<<Reg1, <<"Q", "5">>>>}
  /\ pc = [c \in Clients |-> "done"]

\* C7: every stored Answer has skipped = false and a parsed integer as its
\* answer, or skipped = true and the answer null.
StoredAnswerCoerced ==
  \A k \in DOMAIN answers :
    \/ answers[k].skipped = False /\ answers[k].answer.t \in {"num", "nan"}
    \/ answers[k].skipped = True /\ answers[k].answer = Null

\* C8: every stored Answer carries a timestamp and the provenance tag of a
\* path.
StoredAnswerTagged ==
  \A k \in DOMAIN answers :
    /\ "timestamp" \in DOMAIN answers[k]
    /\ "submittedVia" \in DOMAIN answers[k]
    /\ answers[k].submittedVia \in ProvenanceTags

\* A document but for its write timestamp.
WithoutTimestamp(d) == [f \in DOMAIN d \ {"timestamp"} |-> d[f]]

\* C9: a request that repeats the one before it (same path, same payload),
\* whose writes were applied, adds no document and changes no field of a
\* stored Answer but the timestamp.
RepeatedWriteIdempotent ==
  [][(\E op \in IngestionOps : Handles(op)) /\ last'.repeat =>
       /\ DOMAIN answers' = DOMAIN answers
       /\ \A k \in DOMAIN answers :
            WithoutTimestamp(answers'[k]) = WithoutTimestamp(answers[k])]_vars

\* A payload was written twice through one path, the second time later.
RepeatedWriteApplied ==
  /\ last.repeat /\ last.written
  /\ \E k \in DOMAIN answers : answers[k].timestamp = Num(1)

\* C10: a timeout save writes exactly the slots of its attempted entries,
\* each with skipped = false, and leaves every other stored Answer as it was.
TimeoutWritesAttemptedOnly ==
  [][Handles("timeout-save-answers") =>
       LET slots == {SlotOf(re) : re \in EntriesToPersist(last')} IN
       IF last'.written
       THEN /\ DOMAIN answers' = DOMAIN answers \cup slots
            /\ \A k \in slots :
                 /\ answers'[k].timestamp = Num(now)
                 /\ answers'[k].skipped = False
                 /\ answers'[k].submittedVia = Str(<<"timeout">>)
            /\ \A k \in DOMAIN answers \ slots : answers'[k] = answers[k]
       ELSE answers' = answers]_vars

\* A timeout save of an attempted and a filtered entry, of different slots,
\* was committed after an earlier write to the filtered entry's slot.
TimeoutMixedBatchCommitted ==
  /\ last.op = "timeout-save-answers"
  /\ last.written
  /\ \E i, j \in 1..Len(last.body.answers) :
       /\ IsAttempted(last.body.answers[i])
       /\ ~IsAttempted(last.body.answers[j])
       /\ last.body.answers[i].questionId.s = <<"5">>
       /\ last.body.answers[j].questionId.s = <<"Q", "7">>
  /\ <<Reg1, <<"Q", "7">>>> \in DOMAIN answers

\* The number of entries of the array that pass the attempted-only filter.
AttemptedCount(b) ==
  Cardinality({i \in 1..Len(b.answers) : IsAttempted(b.answers[i])})

\* C11: a timeout save of an array that is answered 200 reports a savedCount
\* equal to the number of entries that pass the attempted-only filter (0 when
\* none passes), and writes nothing when none passes.
TimeoutSavedCountReported ==
  [][Handles("timeout-save-answers") /\ last'.body.isArray /\ last'.status = 200 =>
       /\ last'.savedCount = AttemptedCount(last'.body)
       /\ AttemptedCount(last'.body) = 0 => UNCHANGED <<candidates, answers>>]_vars

\* The count is the filtered size whenever the reply carries one, and an
\* array none of whose entries passes is answered 200 and writes nothing.
TimeoutSavedCountWhenPresent ==
  [][Handles("timeout-save-answers") /\ last'.body.isArray =>
       /\ last'.savedCount # -1 => last'.savedCount = AttemptedCount(last'.body)
       /\ AttemptedCount(last'.body) = 0 =>
            last'.status = 200 /\ UNCHANGED <<candidates, answers>>]_vars


\* A field the request does not carry: undefined, null or the empty string.
Absent(v) == v \in {Undef, Null, Str(<<>>)}

\* The first option, as a number or as its numeral.
IsZero(v) == v \in {Num(0), Str(<<"0">>)}

\* C12: save-answer answers 400 exactly when registrationNumber, questionId
\* or examName is absent or answer is undefined; an answer of 0 with the
\* other fields present is not answered 400, is answered 200 when the store
\* accepts the write, and is stored as the number 0.
SaveAnswerMissingField ==
  last.op = "save-answer" =>
    LET b == last.body
        missing == \/ Absent(b.registrationNumber) \/ Absent(b.questionId)
                   \/ Absent(b.examName) \/ b.answer = Undef
    IN /\ last.status = 400 <=> missing
       /\ (IsZero(b.answer) /\ ~missing /\ b.order # Undef) =>
            /\ last.status # 400
            /\ last.outcome = "ok" => last.status = 200
            /\ last.written =>
                 answers[<<b.registrationNumber.s, Canonical(b.questionId.s)>>].answer
                   = Num(0)

\* An answer of 0 was saved for question 7 and answered 200.
ZeroAnswerStored ==
  /\ last.op = "save-answer"
  /\ last.body.answer = Num(0)
  /\ last.status = 200
  /\ answers[<<Reg1, <<"Q", "7">>>>].answer = Num(0)


\* A payload the four paths answer with a validation error.
InvalidPayload(op, b) ==
  CASE op = "save-answer" ->
         \/ Absent(b.registrationNumber) \/ Absent(b.questionId)
         \/ Absent(b.examName) \/ b.answer = Undef
    [] op = "save-all-answers" -> ~b.isArray \/ b.answers = <<>>
    [] op = "timeout-save-answers" -> ~b.isArray
    [] op = "complete-exam" ->
         Absent(b.candidateId) \/ Absent(b.examName) \/ ~b.isArray
    [] OTHER -> FALSE

\* C13: a request of an ingestion path that is answered 400 leaves every
\* stored Answer and every Candidate as it was; an empty or non-array payload
\* of save-all-answers, and every other invalid payload, is answered 400.
ValidationErrorNoSideEffect ==
  [][\A op \in IngestionOps :
       Handles(op) =>
         /\ last'.status = 400 => UNCHANGED <<candidates, answers>>
         /\ InvalidPayload(op, last'.body) =>
              last'.status = 400 /\ UNCHANGED <<candidates, answers>>]_vars

\* A complete-exam without examName was answered 400 after an answer of the
\* candidate had been stored.
ValidationErrorAfterWrite ==
  /\ last.op = "complete-exam"
  /\ last.status = 400
  /\ last.body.candidateId = Str(Reg1)
  /\ <<Reg1, <<"Q", "5">>>> \in DOMAIN answers
  /\ "submitted" \notin DOMAIN candidates[Reg1]


\* The answer slots request p writes.
SlotsOf(p) ==
  {p.ops[i].ref : i \in {j \in 1..Len(p.ops) : p.ops[j].coll = "answers"}}

\* The record request p stores in slot k: that of its last write to k.
RecordOf(p, k) ==
  LET hits == {i \in 1..Len(p.ops) : p.ops[i].coll = "answers" /\ p.ops[i].ref = k}
  IN p.ops[CHOOSE i \in hits : \A h \in hits : i >= h].data

\* C14: when the write of a request completes while another request for the
\* same slot is waiting or has completed, the request is answered 200 if the
\* store accepts the write (and its candidate exists, for complete-exam),
\* whatever the other request did; the slot then holds exactly the record of
\* this request, with its fields only, and every other slot is as it was.
ConcurrentLastWriteWins ==
  [][\A c \in Clients :
       (pc[c] = "awaiting" /\ pc'[c] = "done") =>
         LET p == inflight[c]
             written == IF last'.written THEN SlotsOf(p) ELSE {}
         IN /\ (/\ last'.outcome = "ok"
                /\ p.op = "complete-exam" => p.body.candidateId.s \in DOMAIN candidates)
                 => last'.status = 200
            /\ \A k \in written :
                 /\ k \in DOMAIN answers'
                 /\ answers'[k] = RecordOf(p, k)
                 /\ DOMAIN answers'[k] = DOMAIN RecordOf(p, k)
            /\ \A k \in DOMAIN answers' \ written :
                 k \in DOMAIN answers /\ answers'[k] = answers[k]]_vars

\* Two requests of different paths wrote one slot concurrently; the one
\* received first completed last, and the slot holds its record, without the
\* tag of the other.
StaleWriteCompletedLast ==
  /\ \A c \in Clients : inflight[c].state = "landed"
  /\ \E c, d \in Clients, k \in DOMAIN answers :
       /\ k \in SlotsOf(inflight[c]) \cap SlotsOf(inflight[d])
       /\ inflight[c].op = "save-all-answers"
       /\ inflight[d].op = "save-answer"
       /\ RecordOf(inflight[c], k).timestamp = Num(0)
       /\ RecordOf(inflight[d], k).timestamp = Num(1)
       /\ answers[k] = RecordOf(inflight[c], k)
       /\ "submittedVia" \notin DOMAIN answers[k]


-----------------------------------------------------------------------------
(* Registration gate: the properties *)

\* C6: of the start-exam requests on one registration number at most one
\* succeeds, however they interleave with validate-registration.
AtMostOneStart == \A r \in DOMAIN started : started[r] <= 1

-----------------------------------------------------------------------------
(* Scoring: the properties *)

Scored == last.op = "today-exam-results"

\* The stored answer matched to question i: the first of its order.
MatchOf(i) ==
  LET hits == {j \in 1..Len(sheet) : sheet[j].order = exam[i].order} IN
  IF hits = {} THEN {} ELSE {sheet[CHOOSE j \in hits : \A h \in hits : j <= h]}

\* The questions with no stored answer of their order, or a skipped one.
SkippedSet ==
  {i \in 1..Len(exam) : MatchOf(i) = {} \/ \E a \in MatchOf(i) : a.skipped = True}

\* The questions whose matched, non-skipped answer is the correct index.
CorrectSet ==
  {i \in 1..Len(exam) :
     \E a \in MatchOf(i) : a.skipped # True /\ a.answer = exam[i].correctAnswer}

\* The questions whose matched, non-skipped answer is another value.
WrongSet ==
  {i \in 1..Len(exam) :
     \E a \in MatchOf(i) : a.skipped # True /\ a.answer # exam[i].correctAnswer}

\* C4: correct + skipped + wrong = N, none negative, and skipped counts
\* exactly the questions with no stored answer of their order or with a
\* skipped one.
ScoringPartition ==
  Scored =>
    /\ result.correctAnswers + result.skippedQuestions + result.wrongAnswers
         = Len(exam)
    /\ result.totalQuestions = Len(exam)
    /\ result.correctAnswers >= 0
    /\ result.skippedQuestions >= 0
    /\ result.wrongAnswers >= 0
    /\ result.skippedQuestions = Cardinality(SkippedSet)

\* Three questions scored against answers for a strict subset of them: one
\* of each kind.
PartitionOfSubset ==
  /\ Scored
  /\ Len(exam) = 3
  /\ {sheet[j].order : j \in 1..Len(sheet)} = {Num(1), Num(2)}
  /\ result.correctAnswers = 1
  /\ result.skippedQuestions = 1
  /\ result.wrongAnswers = 1

Math101 ==
  <<[order |-> Num(1), correctAnswer |-> Num(1)],
    [order |-> Num(2), correctAnswer |-> Num(0)],
    [order |-> Num(3), correctAnswer |-> Num(2)]>>

\* C5: the counts are those of the reference classification: correct the
\* questions whose matched non-skipped answer is the correct index, wrong
\* those whose matched non-skipped answer differs; the Math101 sheet scores
\* 1/1/1 of 3 and an empty sheet on five questions 0/5/0 of 5.
ScoringMatchesReference ==
  Scored =>
    /\ result.correctAnswers = Cardinality(CorrectSet)
    /\ result.wrongAnswers = Cardinality(WrongSet)
    /\ result.skippedQuestions = Cardinality(SkippedSet)
    /\ result.totalQuestions = Len(exam)
    /\ (exam = Math101
          /\ sheet = <<StoredAnswer(1, Num(1), False), StoredAnswer(2, Num(2), False),
                       StoredAnswer(3, Null, True)>>)
         => result = [totalQuestions |-> 3, correctAnswers |-> 1,
                      skippedQuestions |-> 1, wrongAnswers |-> 1]
    /\ (Len(exam) = 5 /\ sheet = <<>>)
         => result = [totalQuestions |-> 5, correctAnswers |-> 0,
                      skippedQuestions |-> 5, wrongAnswers |-> 0]

\* The Math101 scenario was scored.
Math101Scored ==
  /\ Scored
  /\ exam = Math101
  /\ sheet = <<StoredAnswer(1, Num(1), False), StoredAnswer(2, Num(2), False),
               StoredAnswer(3, Null, True)>>
  /\ result.correctAnswers = 1

\* A five-question exam was scored for a candidate with no stored answer.
NoAnswersScored == Scored /\ Len(exam) = 5 /\ sheet = <<>> /\ result.skippedQuestions = 5

\* The sequence with its elements i and i + 1 exchanged (every reordering is
\* a succession of such exchanges).
Swapped(seq, i) ==
  [j \in 1..Len(seq) |-> IF j = i THEN seq[i + 1] ELSE IF j = i + 1 THEN seq[i] ELSE seq[j]]

\* C15: for fixed Questions and fixed stored Answers the counts are the same
\* in whatever order the store returns the questions and the answers, also
\* when two stored answers carry the same order value.
ScoringOrderIndependent ==
  Scored =>
    /\ \A i \in 1..(Len(exam) - 1) : ResultData(Swapped(exam, i), sheet) = result
    /\ \A i \in 1..(Len(sheet) - 1) : ResultData(exam, Swapped(sheet, i)) = result

\* The counts do not depend on the order of the questions, nor on the order
\* of the answers when no two of them carry the same order value.
ScoringOrderIndependentOfDistinct ==
  Scored =>
    /\ \A i \in 1..(Len(exam) - 1) : ResultData(Swapped(exam, i), sheet) = result
    /\ (\A j, k \in 1..Len(sheet) : j # k => sheet[j].order # sheet[k].order) =>
         \A i \in 1..(Len(sheet) - 1) : ResultData(exam, Swapped(sheet, i)) = result

\* The stored answers whose order is that of a question of the exam.
MatchingAnswers ==
  LET Matches(a) == \E i \in 1..Len(exam) : a.order = exam[i].order IN
  SelectSeq(sheet, Matches)

\* C16: the counts of a candidate are those of the candidate without the
\* stored answers whose order matches no question: such answers change none
\* of correct, skipped, wrong and total, and the scoring completes.
StaleAnswersIgnored ==
  Scored =>
    /\ result = ResultData(exam, MatchingAnswers)
    /\ result.totalQuestions = Len(exam)

\* A one-question exam was scored for a candidate who also has a stored,
\* attempted answer of order 2.
StaleAnswerScored ==
  /\ Scored
  /\ Len(exam) = 1
  /\ \E j, k \in 1..Len(sheet) :
       /\ sheet[j].order = Num(2) /\ sheet[j].skipped = False
       /\ sheet[k].order = Num(1)
  /\ result.correctAnswers = 1
  /\ result.wrongAnswers = 0

-----------------------------------------------------------------------------
(* Questions: the properties *)

\* C17: whatever questions are created and deleted in an exam, the order
\* given to a created question is greater than the order given to every
\* question created before it in that exam.
QuestionOrderMonotonic ==
  \A e \in ExamTitles :
    \A i, j \in 1..Len(createdOrders[e]) :
      i < j => createdOrders[e][i] < createdOrders[e][j]

\* The order given at creation is the count of the exam's questions plus one.
QuestionOrderIsCountPlusOne ==
  [][\A e \in ExamTitles :
       Len(createdOrders'[e]) > Len(createdOrders[e]) =>
         createdOrders'[e][Len(createdOrders'[e])]
           = Cardinality(QuestionIdsOf(questionDocs, e)) + 1]_vars

-----------------------------------------------------------------------------
(* Results materialization: the properties *)

\* The exams scheduled on the calendar date of clock t.
ScheduledOn(t) ==
  {e \in DOMAIN examDocs :
     examDocs[e].date = Str(<<Digits[(t \div TicksPerDay) + 1]>>)}

\* The Results paths a run on exam e has set.
PathsSet(run, e) ==
  {<<e, run.pushed[i].registrationNumber.s>> : i \in 1..run.stored}

\* C18: a run of today-exam-results leaves, for each candidate it
\* materializes, one Result record at (exam, candidate) that is the
\* resultData of this run and its timestamp, with no other field; it adds no
\* other record and changes no other; its counts are over the questions the
\* exam has now.
ResultPureOverwrite ==
  [][Handles("today-exam-results") =>
       LET run == last' IN
       /\ \E e \in IF run.stored = 0 THEN {<<>>} ELSE ScheduledOn(now) :
            /\ DOMAIN results' = DOMAIN results \cup PathsSet(run, e)
            /\ \A p \in DOMAIN results \ PathsSet(run, e) : results'[p] = results[p]
            /\ \A i \in 1..run.stored :
                 LET p == <<e, run.pushed[i].registrationNumber.s>> IN
                 /\ WithoutTimestamp(results'[p]) = run.pushed[i]
                 /\ results'[p].timestamp = Num(now)
                 /\ results'[p].totalQuestions.n
                      = Cardinality(QuestionIdsOf(questionDocs, e))
                 /\ results'[p].correctAnswers.n + results'[p].skippedQuestions.n
                      + results'[p].wrongAnswers.n = results'[p].totalQuestions.n
       /\ run.status = 200 => run.results = run.pushed /\ run.stored = Len(run.pushed)]_vars

\* The administrator's server materialized REG1 and REG2; later, after REG1
\* answered question 5, the other server materialized REG1 again and failed
\* at REG2: the record of REG1 is that of the later run.
ResultOverwritten ==
  /\ last.op = "today-exam-results"
  /\ last.body = "user"
  /\ last.stored = 1
  /\ {<<ExamName.s, Reg1>>, <<ExamName.s, Reg2>>} \subseteq DOMAIN results
  /\ "submitted" \in DOMAIN results[<<ExamName.s, Reg2>>]
  /\ "submitted" \notin DOMAIN results[<<ExamName.s, Reg1>>]
  /\ results[<<ExamName.s, Reg2>>].timestamp.n < results[<<ExamName.s, Reg1>>].timestamp.n
  /\ results[<<ExamName.s, Reg1>>].correctAnswers = Num(1)

\* C19: when the scoring or materializing of one candidate fails, every
\* other candidate of the exam is still scored and materialized by the run,
\* or the response names the candidate that failed.
BulkFailureSignalled ==
  [][Handles("today-exam-results") /\ last'.status = 500 =>
       \A e \in ScheduledOn(now) :
         LET failedOne == last'.pushed[last'.stored + 1].registrationNumber.s
             others == {r \in DOMAIN candidates : candidates[r].exam = Str(e)}
                         \ {failedOne}
         IN \/ \A r \in others :
                 /\ <<e, r>> \in DOMAIN results'
                 /\ results'[<<e, r>>].timestamp = Num(now)
            \/ failedOne \in last'.failed]_vars

\* C20: a run at a clock on whose date no exam is scheduled is answered 404,
\* returns no result and writes no Result record; a run on the date of an
\* exam is not, and it scores and materializes only candidates registered to
\* that exam.
NotFoundWithoutExamToday ==
  [][Handles("today-exam-results") =>
       LET run == last' IN
       IF ScheduledOn(now) = {}
       THEN run.status = 404 /\ run.results = <<>> /\ run.pushed = <<>>
            /\ results' = results
       ELSE /\ run.status # 404
            /\ \E e \in ScheduledOn(now) :
                 /\ \A i \in 1..Len(run.pushed) :
                      candidates[run.pushed[i].registrationNumber.s].exam = Str(e)
                 /\ \A p \in DOMAIN results' :
                      (p \notin DOMAIN results \/ results'[p] # results[p]) =>
                        p[1] = e /\ candidates[p[2]].exam = Str(e)]_vars

\* A run on a date with no exam was answered 404 after a run on the day
\* before had materialized the two candidates of Math101, and not REG3.
NotFoundAfterResults ==
  /\ last.op = "today-exam-results"
  /\ last.status = 404
  /\ DOMAIN results = {<<ExamName.s, Reg1>>, <<ExamName.s, Reg2>>}
  /\ examDocs[<<"Phys101">>].date = Str(<<"0">>)

-----------------------------------------------------------------------------
(* Registration, payment and schedule: the properties *)

\* C21: validate-registration answers 200 only for a candidate that exists,
\* whose used flag is false and whose exam date is not after the clock; it
\* answers 404 for an unknown registration number, 400 for an upcoming exam
\* and 400 for a used registration, and never changes a Candidate.
ValidateRegistrationGate ==
  [][Handles("validate-registration") =>
       LET reg == last'.body.registrationNumber.s
           known == reg \in DOMAIN candidates
           upcoming == DigitVal(candidates[reg].examDate.s[1]) > now
       IN /\ candidates' = candidates
          /\ last'.status = 200 =>
               known /\ candidates[reg].used = False /\ ~upcoming
          /\ ~known => last'.status = 404
          /\ (known /\ upcoming) => last'.status = 400
          /\ (known /\ candidates[reg].used = True) => last'.status = 400]_vars

\* A validation of REG1 was refused after its exam had been started.
UsedRegistrationRefused ==
  /\ last.op = "validate-registration"
  /\ last.body.registrationNumber.s = Reg1
  /\ last.status = 400
  /\ candidates[Reg1].used = True

\* The signature the gateway gives for the ids of a body.
SignatureOf(b) == Hmac(KeySecret, ToText(b.orderId) \o <<"|">> \o ToText(b.paymentId))

\* C22: a payment verification answers success only when the signature sent
\* is the HMAC-SHA256 of orderId|paymentId under the shared secret; for any
\* other signature it answers 400 and has made no call to the gateway.
PaymentSignatureGate ==
  last.op \in {"verify-payment", "verify-pdf-payment"} =>
    /\ last.status = 200 => last.body.signature = SignatureOf(last.body)
    /\ last.body.signature # SignatureOf(last.body) =>
         last.status = 400 /\ gateway = <<>>

\* A signature made with another key for a captured payment was refused.
ForgedSignatureRefused ==
  /\ last.op = "verify-payment"
  /\ last.body.orderId = Str(<<"o1">>)
  /\ last.body.paymentId = Str(<<"p1">>)
  /\ last.body.signature = Hmac(ForgedKey, <<"o1", "|", "p1">>)
  /\ last.status = 400
  /\ gateway = <<>>

\* The gateway's signature for a captured payment was accepted, after both
\* gateway calls.
SignedPaymentAccepted ==
  /\ last.op = "verify-payment"
  /\ last.status = 200
  /\ Len(gateway) = 2

\* C23: a winner choice is recorded at most once for an exam and a
\* registration number: a save-winner-choice handler that answers when a
\* choice is stored for its pair does not answer 200 and leaves the stored
\* choice as it is, however the requests interleave.
WinnerChoiceRecordedOnce ==
  [][\A c \in Clients :
       (reqs[c].op = "save-winner-choice" /\ reqs'[c] = Idle
          /\ WinnerPath(reqs[c].body) \in DOMAIN winners)
         => last'.status # 200 /\ winners' = winners]_vars

\* C24: check-exam-purchase answers purchased = true only for a student who
\* holds a purchase of that exam whose payment a verify-payment request has
\* answered success for.
PurchasedOnlyIfVerified ==
  (last.op = "check-exam-purchase" /\ last.data = True) =>
    \E k \in StudentKeys(students, last.body.studentId) :
      \E i \in 1..Len(students[k].purchases) :
        LET purchase == students[k].purchases[i]
        IN /\ Field(purchase.examDetails.o, "id") = last.body.examId
           /\ "paymentDetails" \in DOMAIN purchase
           /\ <<purchase.paymentDetails.o.orderId.s,
                purchase.paymentDetails.o.paymentId.s>> \in verified

\* The Candidate state the completion path owns.
CompletionState(doc) ==
  <<Field(doc, "used"), Field(doc, "submitted"), Field(doc, "examCompletedAt")>>

\* C25: save-answer, save-all-answers and timeout-save-answers create no
\* Candidate and leave used, submitted and the completion time of every
\* Candidate as they are, whether or not the candidate addressed exists.
IngestionLeavesCandidates ==
  [][(Handles("save-answer") \/ Handles("save-all-answers")
        \/ Handles("timeout-save-answers")) =>
       /\ DOMAIN candidates' = DOMAIN candidates
       /\ \A r \in DOMAIN candidates :
            CompletionState(candidates'[r]) = CompletionState(candidates[r])]_vars

\* A timed-out batch stored an answer of a candidate who exists, and an
\* answer was stored for a registration number that has no candidate.
AnswersStoredWithoutCandidate ==
  /\ last.op = "timeout-save-answers"
  /\ last.written
  /\ \E k \in DOMAIN answers : k[1] = Reg1
  /\ \E k \in DOMAIN answers : k[1] = Reg9
  /\ Reg9 \notin DOMAIN candidates

\* C26: no two Questions of one exam have the same order.
QuestionOrdersDistinct ==
  \A j, k \in DOMAIN questionDocs :
    (j # k /\ j[1] = k[1]) => questionDocs[j].order # questionDocs[k].order

\* C27: a successful /api/register creates a Candidate with used = false under
\* a registration number that no candidate had, and leaves every existing
\* Candidate as it was.
RegistrationCreatesCandidate ==
  [][(last'.op = "register" /\ last'.status = 201) =>
       /\ last'.data.s \notin DOMAIN candidates
       /\ last'.data.s \in DOMAIN candidates'
       /\ candidates'[last'.data.s].used = False
       /\ \A r \in DOMAIN candidates : candidates'[r] = candidates[r]]_vars

\* The fields of a schedule both stores are given.
ScheduleFields == {"date", "startTime", "endTime", "marks", "price"}

ScheduleOf(doc) == [f \in ScheduleFields |-> Field(doc, f)]

\* C28: while no date-time request is in flight, ExamDateTime/<title> and
\* Exams/<title>.dateTime hold the same date, startTime, endTime, marks and
\* price.
ScheduleStoresAgree ==
  (\A c \in Clients : reqs[c] = Idle) =>
    /\ DOMAIN schedule = DOMAIN examDocs
    /\ \A e \in DOMAIN schedule : ScheduleOf(schedule[e]) = ScheduleOf(examDocs[e])

\* C29: a purchase save-exam-purchase has stored for a student stays in the
\* student's purchases, however the requests for the student interleave.
NoLostPurchase ==
  [][\A k \in DOMAIN students :
       \A i \in 1..Len(students[k].purchases) :
         "paymentDetails" \in DOMAIN students[k].purchases[i] =>
           \E j \in 1..Len(students'[k].purchases) :
             students'[k].purchases[j] = students[k].purchases[i]]_vars

\* C30: on each open stream, a change of ExamDateTime is followed by a push of
\* the data (or by the client's disconnection).
StreamsFollowSchedule ==
  \A s \in StreamPaths : streams[s].stale ~> ~streams[s].stale

\* The stream of /api/today-exams, whose listener is on ExamDateTime, is
\* pushed the data after every change.
TodayExamsFollowsSchedule ==
  streams["today-exams"].stale ~> ~streams["today-exams"].stale

====
